---- MODULE Spec2Model ----
(***************************************************************************)
(* A model of miniflare's R2 object gateway (packages/r2/src/bucket.ts)    *)
(* over a storage substrate, and of the file storage that persists values  *)
(* and sidecar metadata as files.  Strings are sequences of one-character  *)
(* strings, byte sequences are sequences of numbers in 0..255, and an      *)
(* optional value is a set with no element (undefined) or one element.     *)
(***************************************************************************)
EXTENDS Integers, Sequences, FiniteSets, TLC

VARIABLES
  store,     \* the substrate: stored key -> [value, metadata]
  now,       \* the clock read by `new Date()`
  versions,  \* how many version tokens createVersion() has handed out
  last,      \* the last gateway call: its arguments, result and substrate calls
  written,   \* key -> the value given to the last successful put not yet deleted
  pager,     \* a caller following list cursors: the pages it has received
  files,     \* the file system: path of a file -> its content
  dirs,      \* the file system: the paths of its directories
  procs,     \* the calls in progress or ended, one per concurrent caller
  sanitise,  \* the `sanitise` parameter of the FileStorage constructor
  loop,      \* a call of list taken one iteration of its fetch loop at a time
  runtime    \* a Runtime object, its child processes and its config file

bucketVars == <<store, now, versions, last, written, pager, loop>>
fileVars == <<files, dirs, procs, sanitise, runtime>>
vars == <<store, now, versions, last, written, pager, files, dirs, procs, sanitise, loop,
          runtime>>

\* The runtime of the specifications that construct none.
NoRuntime == [process |-> {}, processExitPromise |-> {}]

(***************************************************************************)
(* Bounds of the model.                                                    *)
(***************************************************************************)
MaxPuts == 2     \* successful puts in one behaviour
MaxClock == 1    \* the clock runs over 0..MaxClock
MaxPages == 4    \* pages one caller fetches while following cursors
ManyKeys == 101  \* stored keys where the cap of 100 on a listing matters
MaxCalls == 3    \* calls of FileStorage in one behaviour

(***************************************************************************)
(* Strings, bytes and their conversions.                                   *)
(***************************************************************************)
Undefined == {}
Some(x) == {x}
IsDefined(o) == o # {}
The(o) == CHOOSE x \in o : TRUE

Min(a, b) == IF a < b THEN a ELSE b

\* UTF-16 code unit of a character: the order of string comparison.
CodePoint(c) ==
  CASE c = "é" -> 233
    [] c = "a" -> 97
    [] c = "\"" -> 34
    [] c = "." -> 46
    [] c = "/" -> 47
    [] c = "0" -> 48 [] c = "1" -> 49 [] c = "2" -> 50 [] c = "3" -> 51
    [] c = "4" -> 52 [] c = "5" -> 53 [] c = "6" -> 54 [] c = "7" -> 55
    [] c = "8" -> 56 [] c = "9" -> 57
    [] c = "A" -> 65 [] c = "B" -> 66 [] c = "C" -> 67 [] c = "D" -> 68
    [] c = "E" -> 69 [] c = "F" -> 70
    [] c = "b" -> 98 [] c = "c" -> 99 [] c = "d" -> 100
    [] c = "e" -> 101 [] c = "f" -> 102
    [] c = "x" -> 120
    [] c = "%" -> 37
    [] c = "$__MINIFLARE_SITES__$/" -> 36

\* encoder.encode of one character: its UTF-8 bytes.
Utf8Char(c) ==
  LET p == CodePoint(c)
  IN  IF p < 128 THEN <<p>>
      ELSE <<192 + (p \div 64), 128 + (p % 64)>>

RECURSIVE encode(_)
\* TextEncoder.encode: the UTF-8 bytes of a string.
encode(s) ==
  IF s = <<>> THEN <<>>
  ELSE IF Len(s) = 1 THEN Utf8Char(s[1])
  ELSE LET half == Len(s) \div 2
       IN  encode(SubSeq(s, 1, half)) \o encode(SubSeq(s, half + 1, Len(s)))

\* encoder.encode(s).byteLength: the sum of the characters' UTF-8 lengths.
utf8ByteLength(s) ==
  Len(s) + Cardinality({i \in DOMAIN s : Len(Utf8Char(s[i])) = 2})

HexDigit(n) ==
  CASE n < 10 -> <<"0", "1", "2", "3", "4", "5", "6", "7", "8", "9">>[n + 1]
    [] OTHER  -> <<"a", "b", "c", "d", "e", "f">>[n - 9]

RECURSIVE toHex(_)
\* Buffer.from(bytes).toString("hex"): two lower-case digits per byte.
toHex(bytes) ==
  IF bytes = <<>> THEN <<>>
  ELSE <<HexDigit(Head(bytes) \div 16), HexDigit(Head(bytes) % 16)>>
         \o toHex(Tail(bytes))

\* String.prototype.slice(from): the characters from index `from` (0-based) on.
sliceFrom(s, from) == SubSeq(s, Min(from, Len(s)) + 1, Len(s))

\* String.prototype.startsWith
startsWith(s, p) == Len(p) <= Len(s) /\ SubSeq(s, 1, Len(p)) = p
\* s.endsWith(p)
endsWith(s, p) == Len(p) <= Len(s) /\ SubSeq(s, Len(s) - Len(p) + 1, Len(s)) = p

\* String.prototype.indexOf: the 0-based index of the first occurrence, or -1.
indexOf(s, d) ==
  LET hits == {i \in 0..(Len(s) - Len(d)) : SubSeq(s, i + 1, i + Len(d)) = d}
  IN  IF hits = {} THEN -1 ELSE CHOOSE i \in hits : \A j \in hits : i <= j

\* String.prototype.includes
includes(s, d) == indexOf(s, d) >= 0

\* s.split(d)[0] for a non-empty d: the text before the first occurrence of d.
splitFirst(s, d) == IF includes(s, d) THEN SubSeq(s, 1, indexOf(s, d)) ELSE s

RECURSIVE lexLess(_, _)
\* a < b in the order of the code units.
lexLess(a, b) ==
  IF b = <<>> THEN FALSE
  ELSE IF a = <<>> THEN TRUE
  ELSE IF Head(a) = Head(b) THEN lexLess(Tail(a), Tail(b))
  ELSE CodePoint(Head(a)) < CodePoint(Head(b))

RECURSIVE sortKeys(_)
\* The keys of a set in ascending lexicographic order: the keys before the
\* middle key, the middle key, the keys after it.
sortKeys(S) ==
  IF S = {} THEN <<>>
  ELSE LET m == CHOOSE k \in S :
                  Cardinality({j \in S : lexLess(j, k)}) = Cardinality(S) \div 2
       IN  sortKeys({j \in S : lexLess(j, m)}) \o <<m>> \o sortKeys({j \in S : lexLess(m, j)})

Range(f) == {f[i] : i \in DOMAIN f}

RECURSIVE concat(_)
\* The concatenation of a sequence of sequences.
concat(ss) == IF ss = <<>> THEN <<>> ELSE Head(ss) \o concat(Tail(ss))

Rep(c, n) == [i \in 1..n |-> c]

(***************************************************************************)
(* JavaScript values, as far as the gateway tells them apart.              *)
(***************************************************************************)
Str(s) == [t |-> "string", s |-> s]
Num(n) == [t |-> "number", n |-> n, nan |-> FALSE]
NaN == [t |-> "number", n |-> 0, nan |-> TRUE]
Date(ms) == [t |-> "Date", ms |-> ms]
Arr(a) == [t |-> "array", items |-> a]
Buf(b) == [t |-> "ArrayBuffer", bytes |-> b]
Obj(o) == [t |-> "object", fields |-> o]

\* typeof x === "string", typeof x === "number" (NaN is a number)
isString(x) == x.t = "string"
typeofNumber(x) == x.t = "number"
isInteger(x) == x.t = "number" /\ ~x.nan

\* typeof x === "object": objects, arrays, Dates and ArrayBuffers
typeofObject(x) == x.t \in {"object", "array", "Date", "ArrayBuffer"}

\* The truthiness of a value: "", 0 and NaN are falsy.
truthy(x) ==
  CASE x.t = "string" -> x.s # <<>>
    [] x.t = "number" -> ~x.nan /\ x.n # 0
    [] OTHER -> TRUE

Digits == {"0", "1", "2", "3", "4", "5", "6", "7", "8", "9"}

\* The global isNaN(x): whether Number(x) is NaN.
isNaN(x) ==
  CASE x.t = "number" -> x.nan
    [] x.t = "string" -> \E i \in DOMAIN x.s : x.s[i] \notin Digits
    [] x.t = "Date" -> FALSE
    [] OTHER -> TRUE

(***************************************************************************)
(* Program constants.                                                      *)
(***************************************************************************)
MAX_LIST_KEYS == 1000
MAX_KEY_SIZE == 512
\* MAX_VALUE_SIZE is 4 995 000 000 bytes, kept in thousands of bytes.
MAX_VALUE_SIZE_THOUSANDS == 4995000

\* byteLength > MAX_VALUE_SIZE
exceedsMaxValueSize(byteLength) ==
  \/ byteLength \div 1000 > MAX_VALUE_SIZE_THOUSANDS
  \/ byteLength \div 1000 = MAX_VALUE_SIZE_THOUSANDS /\ byteLength % 1000 > 0

(***************************************************************************)
(* Errors.  An operation that may throw yields an optional error.          *)
(***************************************************************************)
\* throwR2Error: new Error(`R2 ${method} failed: ${status} ${message}`)
throwR2Error(method, status, message) ==
  [name |-> "Error", method |-> method, status |-> status, message |-> message]

TypeError(message) ==
  [name |-> "TypeError", method |-> "", status |-> 0, message |-> message]

RECURSIVE firstError(_)
\* The error thrown by the first of a sequence of checks that throws.
firstError(checks) ==
  IF checks = <<>> THEN Undefined
  ELSE IF IsDefined(Head(checks)) THEN Head(checks)
  ELSE firstError(Tail(checks))

RangeNotSatisfiable ==
  throwR2Error("GET", 400, "The requested range is not satisfiable.")

(***************************************************************************)
(* Validation.                                                             *)
(***************************************************************************)
\* validateKey measuring a key in characters, not in UTF-8 bytes.
validateKeyByCharacters(method, key) ==
  IF key = <<>> THEN Some(TypeError("Key name cannot be empty."))
  ELSE IF key = <<".">> THEN Some(TypeError("\".\" is not allowed as a key name."))
  ELSE IF key = <<".", ".">>
    THEN Some(TypeError("\"..\" is not allowed as a key name."))
  ELSE IF Len(key) > MAX_KEY_SIZE
    THEN Some(throwR2Error(method, 414, "UTF-8 encoded length exceeds key length limit."))
  ELSE Undefined

\* The messages of the length errors are kept without the numbers the code
\* writes into them.
validateKey(method, key) ==
  IF key = <<>> THEN Some(TypeError("Key name cannot be empty."))
  ELSE IF key = <<".">> THEN Some(TypeError("\".\" is not allowed as a key name."))
  ELSE IF key = <<".", ".">>
    THEN Some(TypeError("\"..\" is not allowed as a key name."))
  ELSE IF utf8ByteLength(key) > MAX_KEY_SIZE
    THEN Some(throwR2Error(method, 414, "UTF-8 encoded length exceeds key length limit."))
  ELSE Undefined

\* `field && !(typeof field === "string" || Array.isArray(field))`
badEtagField(f) ==
  IsDefined(f) /\ truthy(The(f)) /\ ~(isString(The(f)) \/ The(f).t = "array")

\* `field && !(field instanceof Date)`
badDateField(f) == IsDefined(f) /\ truthy(The(f)) /\ The(f).t # "Date"

\* onlyIf is the option after its default `{}` has been applied.
validateOnlyIf(onlyIf) ==
  IF ~typeofObject(onlyIf)
    THEN Some(throwR2Error("GET", 400,
           "onlyIf must be an object, a Headers instance, or undefined."))
  ELSE IF onlyIf.t # "object" THEN Undefined
  ELSE IF badEtagField(onlyIf.fields.etagMatches)
    THEN Some(throwR2Error("GET", 400, "etagMatches must be a string."))
  ELSE IF badEtagField(onlyIf.fields.etagDoesNotMatch)
    THEN Some(throwR2Error("GET", 400, "etagDoesNotMatch must be a string."))
  ELSE IF badDateField(onlyIf.fields.uploadedBefore)
    THEN Some(throwR2Error("GET", 400, "uploadedBefore must be a Date."))
  ELSE IF badDateField(onlyIf.fields.uploadedAfter)
    THEN Some(throwR2Error("GET", 400, "uploadedAfter must be a Date."))
  ELSE Undefined

\* An object with none of the four clauses: the default `{}`.
EmptyConditional ==
  Obj([etagMatches |-> Undefined, etagDoesNotMatch |-> Undefined,
       uploadedBefore |-> Undefined, uploadedAfter |-> Undefined])

EmptyRange == Obj([offset |-> Undefined, length |-> Undefined, suffix |-> Undefined])

\* `const { x = d } = options`: the default applies to undefined only.
orDefault(o, d) == IF IsDefined(o) THEN The(o) ELSE d

\* `field !== undefined && !isNaN(field)`
rejectedRangeField(f) == IsDefined(f) /\ ~isNaN(The(f))

validateR2GetOptions(options) ==
  LET onlyIf == orDefault(options.onlyIf, EmptyConditional)
      range == orDefault(options.range, EmptyRange)
  IN  IF IsDefined(validateOnlyIf(onlyIf)) THEN validateOnlyIf(onlyIf)
      ELSE IF ~typeofObject(range)
        THEN Some(throwR2Error("GET", 400, "range must be an object or undefined."))
      ELSE IF rejectedRangeField(range.fields.offset)
        THEN Some(throwR2Error("GET", 400, "offset must be a number."))
      ELSE IF rejectedRangeField(range.fields.length)
        THEN Some(throwR2Error("GET", 400, "length must be a number."))
      ELSE IF rejectedRangeField(range.fields.suffix)
        THEN Some(throwR2Error("GET", 400, "suffix must be a number."))
      ELSE Undefined

\* httpMetadata is an optional object: field name -> value.
validateHttpMetadata(httpMetadata) ==
  IF ~IsDefined(httpMetadata) THEN Undefined
  ELSE LET entries == The(httpMetadata).fields
       IN  IF "cacheExpiry" \in DOMAIN entries /\ entries["cacheExpiry"].t # "Date"
             THEN Some(throwR2Error("PUT", 400,
                    "cacheExpiry's value must be a Date or undefined."))
           ELSE IF \E f \in DOMAIN entries \ {"cacheExpiry"} : ~isString(entries[f])
             THEN Some(throwR2Error("PUT", 400,
                    "value must be a string or undefined."))
           ELSE Undefined

\* validateR2PutOptions leaving the values of customMetadata unchecked.
validateCustomMetadataShape(customMetadata) ==
  IF IsDefined(customMetadata) /\ ~typeofObject(The(customMetadata))
    THEN Some(throwR2Error("PUT", 400,
           "customMetadata must be an object or undefined."))
  ELSE Undefined

validateCustomMetadata(customMetadata) ==
  IF ~IsDefined(customMetadata) THEN Undefined
  ELSE IF ~typeofObject(The(customMetadata))
    THEN Some(throwR2Error("PUT", 400,
           "customMetadata must be an object or undefined."))
  ELSE IF \E f \in DOMAIN The(customMetadata).fields :
            ~isString(The(customMetadata).fields[f])
    THEN Some(throwR2Error("PUT", 400, "customMetadata values must be strings."))
  ELSE Undefined

validateMd5(md5) ==
  IF IsDefined(md5) /\ The(md5).t # "ArrayBuffer" /\ ~isString(The(md5))
    THEN Some(throwR2Error("PUT", 400,
           "md5 must be a string, ArrayBuffer, or undefined."))
  ELSE Undefined

validateR2PutOptions(options) ==
  firstError(<<validateOnlyIf(orDefault(options.onlyIf, EmptyConditional)),
               validateHttpMetadata(options.httpMetadata),
               validateCustomMetadata(options.customMetadata),
               validateMd5(options.md5)>>)

(***************************************************************************)
(* The storage substrate (the Storage contract of @miniflare/shared).      *)
(* A store maps each stored key to [value, metadata], the metadata being   *)
(* optional.                                                               *)
(***************************************************************************)
\* Storage.meta(key): the metadata stored for the key, without its value.
Storage_meta(st, key) == IF key \in DOMAIN st THEN st[key].metadata ELSE Undefined

\* Storage.get(key): the stored value with its metadata.
Storage_get(st, key) == IF key \in DOMAIN st THEN Some(st[key]) ELSE Undefined

\* Storage.getRangeMaybeExpired(key, offset, length): the bytes
\* [offset, offset + length), to the end when length is undefined; throws
\* when the store cannot honour the window.
Storage_getRangeMaybeExpired(st, key, offset, length) ==
  IF key \notin DOMAIN st THEN [threw |-> FALSE, stored |-> Undefined]
  ELSE LET size == Len(st[key].value)
           len == IF IsDefined(length) THEN The(length) ELSE Num(size)
       IN  IF ~isInteger(offset) \/ ~isInteger(len)
             THEN [threw |-> TRUE, stored |-> Undefined]
           ELSE IF offset.n < 0 \/ len.n < 0 \/ offset.n + len.n > size
                   \/ (~IsDefined(length) /\ offset.n > size)
             THEN [threw |-> TRUE, stored |-> Undefined]
           ELSE [threw |-> FALSE,
                 stored |-> Some([value |-> SubSeq(st[key].value, offset.n + 1,
                                    IF IsDefined(length) THEN offset.n + len.n ELSE size),
                                  metadata |-> st[key].metadata])]

\* Storage.getSuffixMaybeExpired(key, suffix): the last `suffix` bytes.
Storage_getSuffixMaybeExpired(st, key, suffix) ==
  IF key \notin DOMAIN st THEN [threw |-> FALSE, stored |-> Undefined]
  ELSE LET size == Len(st[key].value)
       IN  IF ~isInteger(suffix) THEN [threw |-> TRUE, stored |-> Undefined]
           ELSE IF suffix.n < 0 \/ suffix.n > size
             THEN [threw |-> TRUE, stored |-> Undefined]
           ELSE [threw |-> FALSE,
                 stored |-> Some([value |-> SubSeq(st[key].value,
                                              size - suffix.n + 1, size),
                                  metadata |-> st[key].metadata])]

\* Storage.put(key, {value, metadata})
Storage_put(st, key, value, metadata) ==
  [k \in DOMAIN st \cup {key} |->
     IF k = key THEN [value |-> value, metadata |-> Some(metadata)] ELSE st[k]]

\* Storage.delete(key)
Storage_delete(st, key) == [k \in DOMAIN st \ {key} |-> st[k]]

\* A list cursor: the base64 encoding of the last key of a page.
base64Encode(key) == [b64 |-> key]
base64Decode(cursor) == cursor.b64

\* Storage.list({prefix, limit, cursor}): at most `limit` of the keys that
\* start with the prefix and come strictly after the cursor's key, ascending,
\* with a cursor when further keys remain.
Storage_list(st, prefix, limit, cursor) ==
  LET matching == {k \in DOMAIN st :
                     /\ startsWith(k, prefix)
                     /\ IsDefined(cursor) => lexLess(base64Decode(The(cursor)), k)}
      sorted == sortKeys(matching)
      n == Min(limit, Len(sorted))
  IN  [keys |-> [i \in 1..n |-> [name |-> sorted[i], metadata |-> st[sorted[i]].metadata]],
       cursor |-> IF n < Len(sorted) /\ n > 0
                    THEN Some(base64Encode(sorted[n])) ELSE Undefined]

(***************************************************************************)
(* r2Object.ts: digests, versions and the conditional test.                *)
(***************************************************************************)
\* The raw digest of a byte sequence: a fingerprint without collisions on
\* the values of the model.
rawDigest(bytes) == <<Len(bytes)>> \o bytes

\* createMD5: the digest as lower-case hex.
createMD5(bytes) == toHex(rawDigest(bytes))

\* createVersion: a token no earlier call has returned.
createVersion(n) == <<"v", n + 1>>

\* One supplied etag list, as parseOnlyIf leaves it: a string is a list of one.
parseEtags(f) ==
  IF ~IsDefined(f) THEN Undefined
  ELSE IF isString(The(f)) THEN Some(<<The(f).s>>)
  ELSE Some(The(f).items)

\* One supplied date, as parseOnlyIf leaves it.
parseDate(f) == IF IsDefined(f) THEN Some(The(f).ms) ELSE Undefined

\* parseOnlyIf: the conditional of an optional onlyIf option.
parseOnlyIf(onlyIf) ==
  LET o == orDefault(onlyIf, EmptyConditional).fields
  IN  [etagMatches |-> parseEtags(o.etagMatches),
       etagDoesNotMatch |-> parseEtags(o.etagDoesNotMatch),
       uploadedBefore |-> parseDate(o.uploadedBefore),
       uploadedAfter |-> parseDate(o.uploadedAfter)]

\* testR2Conditional: TRUE when the conditional FAILS against the metadata.
testR2Conditional(onlyIf, metadata) ==
  \/ IsDefined(onlyIf.etagMatches)
       /\ metadata.etag \notin Range(The(onlyIf.etagMatches))
  \/ IsDefined(onlyIf.etagDoesNotMatch)
       /\ metadata.etag \in Range(The(onlyIf.etagDoesNotMatch))
  \/ IsDefined(onlyIf.uploadedBefore)
       /\ ~(metadata.uploaded < The(onlyIf.uploadedBefore))
  \/ IsDefined(onlyIf.uploadedAfter)
       /\ ~(metadata.uploaded > The(onlyIf.uploadedAfter))

EmptyObject == [f \in {} |-> Str(<<>>)]

\* parseHttpMetadata: the fields of an optional httpMetadata object.
parseHttpMetadata(httpMetadata) ==
  IF IsDefined(httpMetadata) THEN The(httpMetadata).fields ELSE EmptyObject

(***************************************************************************)
(* The gateway, R2Bucket.  Each operation yields its result, the store it  *)
(* leaves, and the substrate calls it made, in order.                      *)
(***************************************************************************)
NullResult == [kind |-> "null"]
VoidResult == [kind |-> "void"]
ErrorResult(e) == [kind |-> "error", error |-> e]
\* new R2Object(metadata)
R2Object(m) == [kind |-> "object", metadata |-> m]
\* new R2ObjectBody(metadata, value)
R2ObjectBody(m, v) == [kind |-> "body", metadata |-> m, body |-> v]

Outcome(result, st, io) == [result |-> result, store |-> st, io |-> io]

R2Bucket_head(st, key) ==
  LET invalid == validateKey("HEAD", key)
      stored == Storage_meta(st, key)
  IN  IF IsDefined(invalid) THEN Outcome(ErrorResult(The(invalid)), st, <<>>)
      ELSE Outcome(IF ~IsDefined(stored) THEN NullResult ELSE R2Object(The(stored)),
                   st, <<"meta">>)

\* The read of the body in get, once the metadata is known to exist.
readBody(st, key, range) ==
  IF IsDefined(range.suffix) /\ typeofNumber(The(range.suffix))
    THEN LET r == Storage_getSuffixMaybeExpired(st, key, The(range.suffix))
         IN  [error |-> IF r.threw THEN Some(RangeNotSatisfiable) ELSE Undefined,
              stored |-> r.stored, io |-> <<"getSuffixMaybeExpired">>]
  ELSE IF \/ IsDefined(range.offset) /\ typeofNumber(The(range.offset))
          \/ IsDefined(range.length) /\ typeofNumber(The(range.length))
    THEN IF /\ IsDefined(range.length) /\ isInteger(The(range.length))
            /\ The(range.length).n = 0
           THEN [error |-> Some(RangeNotSatisfiable), stored |-> Undefined, io |-> <<>>]
         ELSE LET r == Storage_getRangeMaybeExpired(st, key,
                         orDefault(range.offset, Num(0)), range.length)
              IN  [error |-> IF r.threw THEN Some(RangeNotSatisfiable) ELSE Undefined,
                   stored |-> r.stored, io |-> <<"getRangeMaybeExpired">>]
  ELSE [error |-> Undefined, stored |-> Storage_get(st, key), io |-> <<"get">>]

\* get leaving the conditional untested: only `meta?.metadata?.size === 0`.
getWithoutBodyWhenEmpty(onlyIf, meta) == IsDefined(meta) /\ The(meta).size = 0

\* `(meta?.metadata && testR2Conditional(onlyIf, meta.metadata)) ||
\*  meta?.metadata?.size === 0`: get answers with the object alone.
getWithoutBody(onlyIf, meta) ==
  \/ IsDefined(meta) /\ testR2Conditional(onlyIf, The(meta))
  \/ IsDefined(meta) /\ The(meta).size = 0

\* get reading on when no metadata was found.
badMetadataIgnored(meta) == FALSE

\* `if (meta?.metadata === undefined) return null;`
badMetadata(meta) == ~IsDefined(meta)

R2Bucket_get(st, key, options) ==
  LET range == orDefault(options.range, EmptyRange)
      invalid == firstError(<<validateKey("GET", key), validateR2GetOptions(options)>>)
  IN  IF IsDefined(invalid) THEN Outcome(ErrorResult(The(invalid)), st, <<>>)
      ELSE
        LET onlyIf == parseOnlyIf(options.onlyIf)
            meta == Storage_meta(st, key)
        IN  IF getWithoutBody(onlyIf, meta)
              THEN Outcome(R2Object(The(meta)), st, <<"meta">>)
            ELSE IF badMetadata(meta) THEN Outcome(NullResult, st, <<"meta">>)
            ELSE
              LET r == readBody(st, key, range.fields)
              IN  IF IsDefined(r.error)
                    THEN Outcome(ErrorResult(The(r.error)), st, <<"meta">> \o r.io)
                  ELSE IF ~IsDefined(r.stored) \/ ~IsDefined(The(r.stored).metadata)
                    THEN Outcome(NullResult, st, <<"meta">> \o r.io)
                  ELSE Outcome(R2ObjectBody(The(The(r.stored).metadata),
                                            The(r.stored).value),
                               st, <<"meta">> \o r.io)

\* new Uint8Array(view.buffer, view.byteOffset, view.byteLength)
viewToArray(view) ==
  SubSeq(view.buffer, view.byteOffset + 1, view.byteOffset + view.byteLength)

\* The conversion taking the whole buffer of a view, `new Uint8Array(value.buffer)`.
toBytesWholeBuffer(value) ==
  CASE value.type = "string" -> Some(encode(value.text))
    [] value.type = "ReadableStream" -> Some(concat(value.chunks))
    [] value.type = "ArrayBuffer" -> Some(value.bytes)
    [] value.type = "ArrayBufferView" -> Some(value.buffer)
    [] value.type = "null" -> Some(<<>>)
    [] value.type = "Blob" -> Some(concat(value.parts))
    [] OTHER -> Undefined

\* The conversion of a put value to its bytes; undefined for a value of no
\* accepted type.
toBytes(value) ==
  CASE value.type = "string" -> Some(encode(value.text))
    [] value.type = "ReadableStream" -> Some(concat(value.chunks))
    [] value.type = "ArrayBuffer" -> Some(value.bytes)
    [] value.type = "ArrayBufferView" -> Some(viewToArray(value))
    [] value.type = "null" -> Some(<<>>)
    [] value.type = "Blob" -> Some(concat(value.parts))
    [] OTHER -> Undefined

\* The md5 option as a hex string.
md5ToString(md5) == IF md5.t = "ArrayBuffer" THEN toHex(md5.bytes) ELSE md5.s

\* The metadata put builds for the bytes it stores.
buildMetadata(key, stored, options, date, n) ==
  [key |-> key,
   size |-> Len(stored),
   etag |-> createMD5(stored),
   version |-> createVersion(n),
   httpEtag |-> <<"\"">> \o createMD5(stored) \o <<"\"">>,
   uploaded |-> date,
   httpMetadata |-> parseHttpMetadata(options.httpMetadata),
   customMetadata |-> IF IsDefined(options.customMetadata)
                        THEN The(options.customMetadata).fields ELSE EmptyObject]

\* put testing the etag clauses only, the upload dates left untested.
putRefusedByEtag(onlyIf, meta) ==
  /\ IsDefined(meta)
  /\ \/ IsDefined(onlyIf.etagMatches)
          /\ The(meta).etag \notin Range(The(onlyIf.etagMatches))
     \/ IsDefined(onlyIf.etagDoesNotMatch)
          /\ The(meta).etag \in Range(The(onlyIf.etagDoesNotMatch))

\* The digest check comparing strings only, an ArrayBuffer left unchecked.
md5MismatchOfStrings(md5, md5Hash) ==
  IsDefined(md5) /\ The(md5).t = "string" /\ The(md5).s # md5Hash

\* `meta?.metadata && testR2Conditional(onlyIf, meta.metadata)`: put returns
\* null and writes nothing.
putRefused(onlyIf, meta) == IsDefined(meta) /\ testR2Conditional(onlyIf, The(meta))

\* `md5 !== undefined` and, as a hex string, `md5 !== md5Hash`
md5Mismatch(md5, md5Hash) == IsDefined(md5) /\ md5ToString(The(md5)) # md5Hash

\* put testing its conditional against the metadata stored when it writes.
metaTestedCurrent(read, current) == current

\* The metadata put tests its conditional against: what `await
\* this.#storage.meta(key)` returned, whatever is stored by the time put
\* goes on.
metaTested(read, current) == read

\* put from `if (meta?.metadata && testR2Conditional(...))` on, over the
\* store st, meta being what storage.meta returned.  date is the value of
\* `new Date()`, n the number of versions handed out.
putAfterMeta(st, key, value, options, date, n, meta) ==
        LET onlyIf == parseOnlyIf(options.onlyIf)
            stored == toBytes(value)
        IN  IF putRefused(onlyIf, metaTested(meta, Storage_meta(st, key)))
              THEN Outcome(NullResult, st, <<"meta">>)
            ELSE IF ~IsDefined(stored)
              THEN Outcome(ErrorResult(TypeError("R2 put() accepts only nulls, strings, Blobs, ArrayBuffers, ArrayBufferViews, and ReadableStreams as values.")),
                           st, <<"meta">>)
            ELSE IF exceedsMaxValueSize(Len(The(stored)))
              THEN Outcome(ErrorResult(throwR2Error("PUT", 400, "Value length exceeds limit.")),
                           st, <<"meta">>)
            ELSE IF md5Mismatch(options.md5, createMD5(The(stored)))
              THEN Outcome(ErrorResult(throwR2Error("PUT", 400,
                             "The Content-MD5 you specified did not match what we received.")),
                           st, <<"meta">>)
            ELSE
              LET metadata == buildMetadata(key, The(stored), options, date, n)
              IN  Outcome(R2Object(metadata),
                          Storage_put(st, key, The(stored), metadata),
                          <<"meta", "put">>)

R2Bucket_put(st, key, value, options, date, n) ==
  LET invalid == firstError(<<validateKey("PUT", key), validateR2PutOptions(options)>>)
  IN  IF IsDefined(invalid) THEN Outcome(ErrorResult(The(invalid)), st, <<>>)
      ELSE putAfterMeta(st, key, value, options, date, n, Storage_meta(st, key))

R2Bucket_delete(st, key) ==
  LET invalid == validateKey("DELETE", key)
  IN  IF IsDefined(invalid) THEN Outcome(ErrorResult(The(invalid)), st, <<>>)
      ELSE Outcome(VoidResult, Storage_delete(st, key), <<"delete">>)

(***************************************************************************)
(* Listing.                                                                *)
(***************************************************************************)
\* The value the delimiter filter's callback returns for one key: true
\* without a delimiter, false for a key grouped under a delimited prefix,
\* and nothing (undefined) when the callback falls off its end.
delimiterFilter(prefix, delimiter, metadata) ==
  IF ~IsDefined(delimiter) THEN Some(TRUE)
  ELSE IF includes(sliceFrom(metadata.key, Len(prefix)), The(delimiter))
    THEN Some(FALSE)
  ELSE Undefined

\* prefix + objectKey.split(delimiter)[0] + delimiter
delimitedPrefix(prefix, delimiter, metadata) ==
  prefix \o splitFirst(sliceFrom(metadata.key, Len(prefix)), delimiter) \o delimiter

RECURSIVE addAll(_, _)
\* Set.add of each element of a sequence, in order: a sequence without
\* repetitions, in insertion order.
addAll(set, xs) ==
  IF xs = <<>> THEN set
  ELSE addAll(IF Head(xs) \in Range(set) THEN set ELSE Append(set, Head(xs)), Tail(xs))

\* The object list returns for one key: the groups not included are emptied.
listedObject(include, metadata) ==
  [metadata EXCEPT
     !.httpMetadata = IF "httpMetadata" \in Range(include) THEN @ ELSE EmptyObject,
     !.customMetadata = IF "customMetadata" \in Range(include) THEN @ ELSE EmptyObject]

\* The metadata of the keys a query returned, those without metadata left out.
definedMetadata(keys) ==
  LET metas == SelectSeq([i \in DOMAIN keys |-> keys[i].metadata], IsDefined)
  IN  [i \in DOMAIN metas |-> The(metas[i])]

\* The objects and delimited prefixes #list makes of the metadata `all`.
listObjects(all, nextCursor, prefix, include, delimitedPrefixes, delimiter) ==
  LET grouped(m) == delimiterFilter(prefix, delimiter, m) = Some(FALSE)
      kept(m) == delimiterFilter(prefix, delimiter, m) = Some(TRUE)
      newPrefix(m) == delimitedPrefix(prefix, The(delimiter), m)
  IN  [objects |-> [i \in DOMAIN SelectSeq(all, kept) |->
                      listedObject(include, SelectSeq(all, kept)[i])],
       cursor |-> nextCursor,
       delimitedPrefixes |->
         addAll(delimitedPrefixes,
                [i \in DOMAIN SelectSeq(all, grouped) |->
                   newPrefix(SelectSeq(all, grouped)[i])])]

\* The result of #list once the substrate has answered with res.
listAnswer(res, prefix, include, delimitedPrefixes, delimiter) ==
  listObjects(definedMetadata(res.keys), res.cursor, prefix, include,
              delimitedPrefixes, delimiter)

\* R2Bucket.#list: one query of the substrate.
R2Bucket_list1(st, prefix, limit, include, delimitedPrefixes, delimiter, cursor) ==
  listAnswer(Storage_list(st, prefix, limit, cursor), prefix, include,
             delimitedPrefixes, delimiter)

\* A loop that goes on after a query that brought no object.
loopBreaksNever(newObjects) == FALSE

\* `if (newObjects.length === 0) break;`
loopBreaks(newObjects) == newObjects = <<>>

\* A query that asks for the whole limit again.
fetchLimitWhole(limit, objects) == limit

\* `limit - objects.length`, the limit of the next query
fetchLimit(limit, objects) == limit - Len(objects)

RECURSIVE listLoop(_, _, _, _, _, _, _, _, _)
RECURSIVE listStep(_, _, _, _, _, _, _, _)
\* The fetch loop of list: `while (objects.length + delimitedPrefixes.size < limit)`.
listLoop(st, prefix, limit, include, delimiter, objects, delimitedPrefixes, cursor, io) ==
  IF ~(Len(objects) + Len(delimitedPrefixes) < limit)
    THEN [objects |-> objects, delimitedPrefixes |-> delimitedPrefixes,
          cursor |-> cursor, io |-> io]
  ELSE listStep(st, prefix, limit, include, delimiter, objects, Append(io, "list"),
                R2Bucket_list1(st, prefix, fetchLimit(limit, objects), include,
                               delimitedPrefixes, delimiter, cursor))

\* The body of the loop after its query returned r: the cursor is replaced,
\* and the loop ends when the query brought no object.
listStep(st, prefix, limit, include, delimiter, objects, io, r) ==
  IF loopBreaks(r.objects)
    THEN [objects |-> objects, delimitedPrefixes |-> r.delimitedPrefixes,
          cursor |-> r.cursor, io |-> io]
  ELSE listLoop(st, prefix, limit, include, delimiter, objects \o r.objects,
                r.delimitedPrefixes, r.cursor, io)

ListResult(objects, truncated, cursor, delimitedPrefixes) ==
  [kind |-> "list", objects |-> objects, truncated |-> truncated,
   cursor |-> cursor, delimitedPrefixes |-> delimitedPrefixes]

\* list returning without `if (cursor !== undefined) truncated = true`.
listReturnNotTruncated(st, r) ==
  Outcome(ListResult(r.objects, FALSE, r.cursor, r.delimitedPrefixes), st, r.io)

\* What list returns after its loop ended with r.
listReturn(st, r) ==
  Outcome(ListResult(r.objects, IsDefined(r.cursor), r.cursor, r.delimitedPrefixes),
          st, r.io)

\* A limit left as it is when metadata groups are included.
effectiveLimitUncapped(limit, include) == limit

\* The limit of the loop: at most 100 when metadata groups are included.
effectiveLimit(limit, include) == IF Len(include) > 0 THEN Min(limit, 100) ELSE limit

\* A limit tested without its upper bound.
invalidLimitBelowOne(limit) == ~typeofNumber(limit) \/ (~limit.nan /\ limit.n < 1)

\* `typeof limit !== "number" || limit < 1 || limit > MAX_LIST_KEYS`: both
\* comparisons are false of NaN.
invalidLimit(limit) ==
  ~typeofNumber(limit) \/ (~limit.nan /\ (limit.n < 1 \/ limit.n > MAX_LIST_KEYS))

\* list, once the defaults of prefix and limit are applied.
listWith(st, prefix, limit, options) ==
  IF invalidLimit(limit)
    THEN Outcome(ErrorResult(throwR2Error("LIST", 400,
                   "MaxKeys params must be positive integer <= 1000.")), st, <<>>)
  ELSE IF limit.nan
    THEN Outcome(ListResult(<<>>, IsDefined(options.cursor), options.cursor, <<>>),
                 st, <<>>)
  ELSE listReturn(st, listLoop(st, prefix, effectiveLimit(limit.n, options.include),
                               options.include, options.delimiter,
                               <<>>, <<>>, options.cursor, <<>>))

R2Bucket_list(st, options) ==
  listWith(st, orDefault(options.prefix, <<>>),
           orDefault(options.limit, Num(MAX_LIST_KEYS)), options)

(***************************************************************************)
(* The inputs of the model.                                                *)
(***************************************************************************)
KeyD == <<"d">>
KeyAB == <<"a", "/", "b">>
KeyAC == <<"a", "/", "c">>
KeyB == <<"b">>
KeyAccent == <<"a", "é">>
\* 512 bytes in 256 characters: the longest key accepted.
KeyLongest == Rep("é", MAX_KEY_SIZE \div 2)
\* 513 bytes in 257 characters: one byte too long.
KeyTooLong == <<"a">> \o Rep("é", MAX_KEY_SIZE \div 2)

InvalidKeys == {<<>>, <<".">>, <<".", ".">>, KeyTooLong}
GatewayKeys == {KeyD, KeyAccent}
ListKeys == {KeyAB, KeyAC, KeyB, KeyD}

\* The values put accepts, one of each type, and one it does not accept.
PutValues ==
  { [type |-> "string", text |-> <<"a", "é">>],
    [type |-> "ArrayBuffer", bytes |-> <<10, 11, 12, 13, 14>>],
    [type |-> "ArrayBufferView", buffer |-> <<1, 2, 3, 4>>, byteOffset |-> 1,
     byteLength |-> 2],
    [type |-> "null"],
    [type |-> "Blob", parts |-> <<<<1, 2>>, <<3>>>>],
    [type |-> "ReadableStream", chunks |-> <<<<7>>, <<>>, <<8>>>>],
    [type |-> "number", n |-> 7] }

FiveBytes == [type |-> "ArrayBuffer", bytes |-> <<10, 11, 12, 13, 14>>]
NoBytes == [type |-> "null"]

NoGetOptions == [onlyIf |-> Undefined, range |-> Undefined]
NoPutOptions ==
  [onlyIf |-> Undefined, httpMetadata |-> Undefined, customMetadata |-> Undefined,
   md5 |-> Undefined]

RangeOf(offset, length, suffix) ==
  [NoGetOptions EXCEPT
     !.range = Some(Obj([offset |-> offset, length |-> length, suffix |-> suffix]))]

Offsets == {Undefined, Some(Num(0)), Some(Num(2)), Some(NaN), Some(Str(<<"x">>))}
Lengths == {Undefined, Some(Num(0)), Some(Num(3)), Some(NaN), Some(Str(<<"x">>))}
Suffixes == {Some(Num(0)), Some(Num(3)), Some(NaN), Some(Str(<<"x">>))}

\* Ranges with an offset, a length or both, ranges with a suffix, and a range
\* that is no object.
RangeOptions ==
  {RangeOf(o, l, Undefined) : o \in Offsets, l \in Lengths}
    \cup {RangeOf(Undefined, Undefined, x) : x \in Suffixes}
    \cup {RangeOf(Some(Num(2)), Some(Num(3)), Some(Num(3)))}
    \cup {[NoGetOptions EXCEPT !.range = Some(Str(<<"x">>))]}

EtagOf(value) == createMD5(The(toBytes(value)))
NeverAnEtag == <<"f", "f">>

OnlyIfOf(em, ednm, ub, ua) ==
  Some(Obj([etagMatches |-> em, etagDoesNotMatch |-> ednm,
            uploadedBefore |-> ub, uploadedAfter |-> ua]))

\* onlyIf options: each clause alone, two clauses together, and three shapes
\* validation rejects.
OnlyIfOptions ==
  { OnlyIfOf(Some(Str(EtagOf(FiveBytes))), Undefined, Undefined, Undefined),
    OnlyIfOf(Some(Str(EtagOf(NoBytes))), Undefined, Undefined, Undefined),
    OnlyIfOf(Some(Str(NeverAnEtag)), Undefined, Undefined, Undefined),
    OnlyIfOf(Some(Arr(<<NeverAnEtag, EtagOf(FiveBytes)>>)), Undefined, Undefined,
             Undefined),
    OnlyIfOf(Undefined, Some(Str(EtagOf(FiveBytes))), Undefined, Undefined),
    OnlyIfOf(Undefined, Undefined, Some(Date(1)), Undefined),
    OnlyIfOf(Undefined, Undefined, Undefined, Some(Date(0))),
    OnlyIfOf(Some(Str(EtagOf(FiveBytes))), Undefined, Undefined, Some(Date(0))),
    OnlyIfOf(Some(Num(5)), Undefined, Undefined, Undefined),
    OnlyIfOf(Undefined, Undefined, Some(Str(<<"1">>)), Undefined),
    Some(Str(<<"x">>)) }

\* The hex digits of a digest in upper case.
upperHex(s) ==
  [i \in DOMAIN s |->
     CASE s[i] = "a" -> "A" [] s[i] = "b" -> "B" [] s[i] = "c" -> "C"
       [] s[i] = "d" -> "D" [] s[i] = "e" -> "E" [] s[i] = "f" -> "F"
       [] OTHER -> s[i]]

\* md5 options for a value: its digest as hex and as raw bytes, the digest
\* in upper case, another value's digest as hex and as raw bytes, and a
\* number.
Md5Options(value) ==
  { Some(Str(EtagOf(value))),
    Some(Buf(rawDigest(The(toBytes(value))))),
    Some(Str(upperHex(EtagOf(value)))),
    Some(Str(createMD5(<<1>>))),
    Some(Buf(rawDigest(<<1>>))),
    Some(Num(1)) }

HttpMetadataOptions ==
  { Some(Obj([contentType |-> Str(<<"x">>)])),
    Some(Obj([contentType |-> Num(1)])),
    Some(Obj([cacheExpiry |-> Str(<<"1">>)])) }

CustomMetadataOptions ==
  { Some(Obj([a |-> Str(<<"x">>)])), Some(Obj([a |-> Num(1)])), Some(Str(<<"x">>)) }

\* The option bags given to put with a value: one option at a time, and a
\* failing md5 together with each onlyIf.
PutOptions(value) ==
  {[NoPutOptions EXCEPT !.onlyIf = c] : c \in OnlyIfOptions}
    \cup {[NoPutOptions EXCEPT !.md5 = m] : m \in Md5Options(value)}
    \cup {[NoPutOptions EXCEPT !.md5 = Some(Str(createMD5(<<1>>))), !.onlyIf = c] :
            c \in OnlyIfOptions}
    \cup {[NoPutOptions EXCEPT !.httpMetadata = h] : h \in HttpMetadataOptions}
    \cup {[NoPutOptions EXCEPT !.customMetadata = c] : c \in CustomMetadataOptions}

GetOnlyIfOptions == {[NoGetOptions EXCEPT !.onlyIf = c] : c \in OnlyIfOptions}

(***************************************************************************)
(* Paths.  A path is a string of "/"-separated segments; the sidecar       *)
(* suffix ".meta.json" is written as one symbol of the alphabet.           *)
(***************************************************************************)
\* this.root = path.resolve(root)
Root == <<"/", "r">>
metaSuffix == <<".meta.json">>
Slash == <<"/">>

RECURSIVE segments(_)
\* s.split("/")
segments(s) ==
  IF ~includes(s, Slash) THEN <<s>>
  ELSE <<splitFirst(s, Slash)>> \o segments(sliceFrom(s, indexOf(s, Slash) + 1))

RECURSIVE joinSegments(_)
\* The absolute path of a sequence of segments.
joinSegments(segs) ==
  IF segs = <<>> THEN <<>> ELSE Slash \o Head(segs) \o joinSegments(Tail(segs))

RECURSIVE resolveSegments(_, _)
\* path.normalize on the segments of an absolute path: "" and "." are
\* dropped, ".." removes the segment before it.
resolveSegments(segs, stack) ==
  IF segs = <<>> THEN stack
  ELSE resolveSegments(Tail(segs),
         IF Head(segs) = <<>> \/ Head(segs) = <<".">> THEN stack
         ELSE IF Head(segs) = <<".", ".">>
           THEN SubSeq(stack, 1, Len(stack) - 1)
         ELSE Append(stack, Head(segs)))

\* path.join(root, key) for an absolute root
path_join(root, key) ==
  LET segs == resolveSegments(segments(root \o Slash \o key), <<>>)
  IN  IF segs = <<>> THEN Slash ELSE joinSegments(segs)

\* The directories above a path, the file-system root left out.
ancestors(path) ==
  LET segs == resolveSegments(segments(path), <<>>)
  IN  {joinSegments(SubSeq(segs, 1, i)) : i \in 1..(Len(segs) - 1)}

\* path.dirname
dirname(path) ==
  LET segs == resolveSegments(segments(path), <<>>)
  IN  IF Len(segs) <= 1 THEN Slash ELSE joinSegments(SubSeq(segs, 1, Len(segs) - 1))

\* Whether a path is a directory's own path or lies below it.
inside(path, dir) == path = dir \/ startsWith(path, dir \o Slash)

\* sanitisePath (@miniflare/shared): a segment made of dots only is replaced
\* by as many underscores, so that no segment climbs out of the root.
sanitisePath(key) ==
  LET segs == segments(key)
      safe(seg) == IF seg # <<>> /\ \A i \in DOMAIN seg : seg[i] = "."
                     THEN [i \in DOMAIN seg |-> "_"] ELSE seg
  IN  sliceFrom(joinSegments([i \in DOMAIN segs |-> safe(segs[i])]), 1)

\* FileStorage.keyPath: the path of a key's value file, undefined when it
\* does not start with the root, and whether sanitising changed the key.
keyPath(sanitised, key) ==
  LET sanitisedKey == IF sanitised THEN sanitisePath(key) ELSE key
      filePath == path_join(Root, sanitisedKey)
  IN  [path |-> IF startsWith(filePath, Root) THEN Some(filePath) ELSE Undefined,
       sanitised |-> sanitisedKey # key]

(***************************************************************************)
(* The file system and the helpers readFile, writeFile and deleteFile.     *)
(* A file holds bytes, or the JSON text of a sidecar record.               *)
(***************************************************************************)
NoFiles == [f \in {} |-> 0]
ValueFile(bytes) ==
  [json |-> FALSE, bytes |-> bytes, key |-> Undefined, expiration |-> Undefined,
   metadata |-> Undefined]

\* JSON.stringify then JSON.parse of metadata: a Date comes back as its ISO
\* string.
jsonMetadata(metadata) ==
  IF IsDefined(metadata)
    THEN Some([The(metadata) EXCEPT !.uploaded = [iso |-> @]])
    ELSE Undefined

\* JSON.stringify({ key, expiration, metadata })
SidecarFile(key, expiration, metadata) ==
  [json |-> TRUE, bytes |-> <<>>, key |-> Some(key), expiration |-> expiration,
   metadata |-> jsonMetadata(metadata)]

\* Whether a directory above the path is in fact a file.
belowFile(fs, path) == \E a \in ancestors(path) : a \in DOMAIN fs

\* fs.readFile with ENOENT turned into undefined: the error code, "" for
\* none, and the content read.
readFile(fs, ds, path) ==
  IF belowFile(fs, path) THEN [code |-> "ENOTDIR", content |-> Undefined]
  ELSE IF path \in ds THEN [code |-> "EISDIR", content |-> Undefined]
  ELSE IF path \in DOMAIN fs THEN [code |-> "", content |-> Some(fs[path])]
  ELSE [code |-> "", content |-> Undefined]

\* fs.mkdir(dirname, {recursive: true}) then fs.writeFile: the error code,
\* and the files and directories left.
writeFile(fs, ds, path, content) ==
  IF dirname(path) \in DOMAIN fs THEN [code |-> "EEXIST", files |-> fs, dirs |-> ds]
  ELSE IF belowFile(fs, dirname(path))
    THEN [code |-> "ENOTDIR", files |-> fs, dirs |-> ds]
  ELSE IF path \in ds THEN [code |-> "EISDIR", files |-> fs, dirs |-> ds]
  ELSE [code |-> "",
        files |-> [f \in DOMAIN fs \cup {path} |-> IF f = path THEN content ELSE fs[f]],
        dirs |-> ds \cup ancestors(path)]

\* fs.unlink with ENOENT turned into false.
deleteFile(fs, ds, path) ==
  IF belowFile(fs, path) THEN [code |-> "ENOTDIR", existed |-> FALSE, files |-> fs]
  ELSE IF path \in ds THEN [code |-> "EISDIR", existed |-> FALSE, files |-> fs]
  ELSE [code |-> "", existed |-> path \in DOMAIN fs,
        files |-> [f \in DOMAIN fs \ {path} |-> fs[f]]]

\* existsSync
existsSync(fs, ds, path) == ~belowFile(fs, path) /\ (path \in DOMAIN fs \/ path \in ds)

(***************************************************************************)
(* FileStorage.  A call runs in steps, one per awaited file operation; its *)
(* outcome is a record of one shape for every operation.                   *)
(***************************************************************************)
Pending ==
  [kind |-> "pending", value |-> <<>>, expiration |-> Undefined,
   metadata |-> Undefined, code |-> "", existed |-> FALSE]
\* `return;`
ReturnedUndefined == [Pending EXCEPT !.kind = "undefined"]
\* a Promise<void> resolved
ReturnedVoid == [Pending EXCEPT !.kind = "void"]
\* `return { value, expiration, metadata }`
ReturnedStored(value, expiration, metadata) ==
  [Pending EXCEPT !.kind = "stored", !.value = value, !.expiration = expiration,
                  !.metadata = metadata]
\* `return { expiration, metadata }`
ReturnedMeta(expiration, metadata) ==
  [Pending EXCEPT !.kind = "meta", !.expiration = expiration, !.metadata = metadata]
\* `return existed`
ReturnedBoolean(b) == [Pending EXCEPT !.kind = "boolean", !.existed = b]
\* a FileStorageError, or the error of a file operation rethrown
Thrown(code) == [Pending EXCEPT !.kind = "error", !.code = code]
\* the process died before the call returned
Crashed == [Pending EXCEPT !.kind = "crashed"]

\* FileStorage.meta: the sidecar of a value file, `{}` when there is none.
\* JSON.parse throws on a file that is not JSON text.
meta(fs, ds, keyFilePath) ==
  LET r == readFile(fs, ds, keyFilePath \o metaSuffix)
  IN  IF r.code # "" THEN [code |-> r.code, record |-> SidecarFile(<<>>, Undefined, Undefined)]
      ELSE IF ~IsDefined(r.content)
        THEN [code |-> "", record |-> [SidecarFile(<<>>, Undefined, Undefined)
                                         EXCEPT !.key = Undefined]]
      ELSE IF ~The(r.content).json
        THEN [code |-> "SyntaxError", record |-> SidecarFile(<<>>, Undefined, Undefined)]
      ELSE [code |-> "", record |-> The(r.content)]

\* A catch of the code of a missing file instead.
getCatchesNoEntry(code) == code = "ENOENT"

\* `if (e.code === "ENOTDIR") return;` in getMaybeExpired
getCatches(code) == code = "ENOTDIR"

\* `if (e.code === "ENOTDIR") return false;` in deleteMaybeExpired
deleteCatches(code) == code = "ENOTDIR"

\* The code of the error put throws when writeFile failed with `code`.
putThrows(code) == IF code # "EEXIST" THEN code ELSE "ERR_NAMESPACE_KEY_CHILD"

\* put writing a sidecar for an expiration or metadata only.
needsSidecarUnlessSanitised(expiration, metadata, sanitised) ==
  IsDefined(expiration) \/ IsDefined(metadata)

\* `expiration !== undefined || metadata !== undefined || sanitised`
needsSidecar(expiration, metadata, sanitised) ==
  IsDefined(expiration) \/ IsDefined(metadata) \/ sanitised

\* What getMaybeExpired returns when reading the value file ended with r, a
\* pending outcome when it goes on to read the sidecar.
getAfterRead(r) ==
  IF r.code # "" THEN (IF getCatches(r.code) THEN ReturnedUndefined ELSE Thrown(r.code))
  ELSE IF ~IsDefined(r.content) THEN ReturnedUndefined
  ELSE Pending

\* What getMaybeExpired returns with the value it read and the sidecar m.
getAfterMeta(value, m) ==
  IF m.code # "" THEN (IF getCatches(m.code) THEN ReturnedUndefined ELSE Thrown(m.code))
  ELSE ReturnedStored(viewToArray([buffer |-> value, byteOffset |-> 0,
                                   byteLength |-> Len(value)]),
                      m.record.expiration, m.record.metadata)

\* FileStorage.getMaybeExpired run without interruption on a file system.
getMaybeExpired(fs, ds, sanitised, key) ==
  LET filePath == keyPath(sanitised, key).path
      r == readFile(fs, ds, The(filePath))
  IN  IF ~IsDefined(filePath) THEN ReturnedUndefined
      ELSE IF getAfterRead(r) # Pending THEN getAfterRead(r)
      ELSE getAfterMeta(The(r.content).bytes, meta(fs, ds, The(filePath)))

\* What hasMaybeExpired returns with the sidecar m.
hasAfterMeta(m) ==
  IF m.code # "" THEN Thrown(m.code)
  ELSE ReturnedMeta(m.record.expiration, m.record.metadata)

(***************************************************************************)
(* The state machine: one action per gateway operation.                    *)
(***************************************************************************)
\* The callers of FileStorage, each making one call at a time: caller 1
\* makes its calls in sequence, caller 2 begins its calls while a call of
\* caller 1 is in progress.
Callers == {1, 2}

\* A caller that has made no call.  alone and before are kept for a call's
\* record: whether no other put or delete of its key has begun since it
\* began, and what a get of its key returned when it began.
IdleProc ==
  [op |-> "none", pc |-> "done", key |-> <<>>, value |-> <<>>, metadata |-> Undefined,
   expiration |-> Undefined, path |-> <<>>, sanitised |-> FALSE, read |-> <<>>, result |-> Pending,
   calls |-> 0, alone |-> FALSE, before |-> Pending]

NoValue == [type |-> "none"]
NoCall == [op |-> "none"]
NoPager == [active |-> FALSE]
NoLoop == [pc |-> "idle"]
EmptyStore == [k \in {} |-> 0]

Call(op, key, value, options, out) ==
  [op |-> op, key |-> key, value |-> value, options |-> options,
   result |-> out.result, io |-> out.io]

Init ==
  /\ store = EmptyStore
  /\ now = 0
  /\ versions = 0
  /\ last = NoCall
  /\ written = EmptyStore
  /\ pager = NoPager
  /\ loop = NoLoop
  /\ files = NoFiles
  /\ dirs = {}
  /\ procs = [p \in Callers |-> IdleProc]
  /\ sanitise = TRUE
  /\ runtime = NoRuntime

\* A call that leaves versions and written as they are.
Returned(op, key, options, out) ==
  /\ last' = Call(op, key, NoValue, options, out)
  /\ store' = out.store
  /\ UNCHANGED <<now, versions, written, pager, fileVars, loop>>

HeadOp(key) == Returned("head", key, NoGetOptions, R2Bucket_head(store, key))

GetOp(key, options) == Returned("get", key, options, R2Bucket_get(store, key, options))

\* Whether a call wrote to the substrate.
wrote(out) == out.io # <<>> /\ out.io[Len(out.io)] \in {"put", "delete"}

PutReturned(key, value, options, out) ==
  /\ wrote(out) => versions < MaxPuts
  /\ last' = Call("put", key, value, options, out)
  /\ store' = out.store
  /\ versions' = IF wrote(out) THEN versions + 1 ELSE versions
  /\ written' = IF wrote(out)
                  THEN [k \in DOMAIN written \cup {key} |->
                          IF k = key THEN value ELSE written[k]]
                  ELSE written
  /\ pager' = NoPager
  /\ UNCHANGED <<now, fileVars, loop>>

PutOp(key, value, options) ==
  PutReturned(key, value, options,
              R2Bucket_put(store, key, value, options, now, versions))

DeleteReturned(key, out) ==
  /\ last' = Call("delete", key, NoValue, NoGetOptions, out)
  /\ store' = out.store
  /\ written' = [k \in DOMAIN written \ (IF wrote(out) THEN {key} ELSE {}) |->
                   written[k]]
  /\ pager' = NoPager
  /\ UNCHANGED <<now, versions, fileVars, loop>>

DeleteOp(key) == DeleteReturned(key, R2Bucket_delete(store, key))

\* The clock advances between calls.
Tick ==
  /\ now < MaxClock
  /\ now' = now + 1
  /\ UNCHANGED <<store, versions, last, written, pager, fileVars, loop>>

AllKeys == GatewayKeys \cup {KeyLongest} \cup InvalidKeys
ShortKeys == GatewayKeys \cup InvalidKeys

\* head of a key of any kind
HeadAny == /\ \E k \in AllKeys : HeadOp(k)

\* get without options, and get of a range
GetPlain == /\ \E k \in ShortKeys : GetOp(k, NoGetOptions)
GetRange == /\ \E k \in GatewayKeys, o \in RangeOptions : GetOp(k, o)

\* put without options: a value of any type, and a key of any kind
PutPlain ==
  /\ \/ \E v \in PutValues : PutOp(KeyD, v, NoPutOptions)
     \/ \E v \in {FiveBytes, NoBytes} : PutOp(KeyAccent, v, NoPutOptions)
     \/ \E k \in InvalidKeys : PutOp(k, FiveBytes, NoPutOptions)

DeleteAny == /\ \E k \in ShortKeys : DeleteOp(k)

\* The gateway with keys of every kind, values of every type and ranged reads.
Next == HeadAny \/ GetPlain \/ GetRange \/ PutPlain \/ DeleteAny

Spec == Init /\ [][Next]_vars

PutOptionsFiveBytes == PutOptions(FiveBytes)
PutOptionsNoBytes == PutOptions(NoBytes)

\* get with an onlyIf option
GetOnlyIf == /\ \E o \in GetOnlyIfOptions : GetOp(KeyD, o)

\* put with an option bag
PutWithOptions ==
  /\ \/ \E o \in PutOptionsFiveBytes : PutOp(KeyD, FiveBytes, o)
     \/ \E o \in PutOptionsNoBytes : PutOp(KeyD, NoBytes, o)

PutTwo == /\ \E v \in {FiveBytes, NoBytes} : PutOp(KeyD, v, NoPutOptions)

\* The gateway with conditional reads and writes, digests and metadata
\* options, on one key, while the clock advances.
HeadOne == /\ HeadOp(KeyD)
GetOne == /\ GetOp(KeyD, NoGetOptions)
DeleteOne == /\ DeleteOp(KeyD)

NextCond ==
  HeadOne \/ GetOne \/ GetOnlyIf \/ PutTwo \/ PutWithOptions \/ DeleteOne \/ Tick

SpecCond == Init /\ [][NextCond]_vars

(***************************************************************************)
(* A value without metadata: the store starts empty, or with the value of  *)
(* one key whose metadata was never written, as a put leaves it when it    *)
(* is cut short between its two writes.                                    *)
(***************************************************************************)
OrphanStore == [k \in {KeyD} |-> [value |-> <<10, 11, 12, 13, 14>>, metadata |-> Undefined]]

InitOrphan ==
  /\ store \in {EmptyStore, OrphanStore}
  /\ now = 0
  /\ versions = 0
  /\ last = NoCall
  /\ written = EmptyStore
  /\ pager = NoPager
  /\ loop = NoLoop
  /\ files = NoFiles
  /\ dirs = {}
  /\ procs = [p \in Callers |-> IdleProc]
  /\ sanitise = TRUE
  /\ runtime = NoRuntime

\* The gateway with every option bag of get and of put.
NextOrphan ==
  HeadAny \/ GetPlain \/ GetRange \/ GetOnlyIf \/ PutTwo \/ PutWithOptions \/ DeleteAny

SpecOrphan == InitOrphan /\ [][NextOrphan]_vars

(***************************************************************************)
(* Overlapping puts: two callers put one key of a bucket that holds an     *)
(* object; a put yields at `await this.#storage.meta(key)`, and goes on    *)
(* with the metadata it read.                                              *)
(***************************************************************************)
IdlePut == [pc |-> "idle", calls |-> 0]

\* put without options, and put with etagMatches of the first object's etag
RacePutOptions ==
  {NoPutOptions,
   [NoPutOptions EXCEPT
      !.onlyIf = OnlyIfOf(Some(Str(EtagOf(FiveBytes))), Undefined, Undefined, Undefined)]}

InitRace ==
  /\ store = R2Bucket_put(EmptyStore, KeyD, FiveBytes, NoPutOptions, 0, 0).store
  /\ versions = 1
  /\ written = [k \in {KeyD} |-> FiveBytes]
  /\ now = 0
  /\ last = NoCall
  /\ pager = NoPager
  /\ loop = NoLoop
  /\ files = NoFiles
  /\ dirs = {}
  /\ procs = [p \in Callers |-> IdlePut]
  /\ sanitise = TRUE
  /\ runtime = NoRuntime

\* put is called and runs up to its read of the metadata.
RacePutBegin ==
  /\ \E p \in Callers, v \in {FiveBytes, NoBytes}, o \in RacePutOptions :
       /\ procs[p].pc \in {"idle", "returned"}
       /\ procs[p].calls < MaxPuts
       /\ procs' = [procs EXCEPT ![p] =
                      [pc |-> "meta read", calls |-> procs[p].calls + 1, key |-> KeyD,
                       value |-> v, options |-> o, meta |-> Storage_meta(store, KeyD)]]
  /\ UNCHANGED <<bucketVars, files, dirs, sanitise, runtime>>

\* put goes on from its conditional to its return.
RacePutWrite ==
  /\ \E p \in Callers :
       /\ procs[p].pc = "meta read"
       /\ LET out == putAfterMeta(store, procs[p].key, procs[p].value, procs[p].options,
                                  now, versions, procs[p].meta)
          IN  /\ store' = out.store
              /\ versions' = IF wrote(out) THEN versions + 1 ELSE versions
              /\ written' = IF wrote(out)
                              THEN [k \in DOMAIN written \cup {procs[p].key} |->
                                      IF k = procs[p].key THEN procs[p].value
                                      ELSE written[k]]
                              ELSE written
              /\ procs' = [procs EXCEPT ![p] =
                             [@ EXCEPT !.pc = "returned"] @@
                               [result |-> out.result, io |-> out.io]]
  /\ UNCHANGED <<now, last, pager, loop, files, dirs, sanitise, runtime>>

NextRace == RacePutBegin \/ RacePutWrite

SpecRace == InitRace /\ [][NextRace]_vars

(***************************************************************************)
(* Listing: the store starts with any of the list keys, put in ascending   *)
(* order; a caller lists with any options, or follows cursors page by page.*)
(***************************************************************************)
OneByte == [type |-> "ArrayBuffer", bytes |-> <<1>>]

RECURSIVE putAll(_, _, _)
\* The store after put of each key of a sequence into st, n versions on.
putAll(st, keys, n) ==
  IF keys = <<>> THEN st
  ELSE putAll(R2Bucket_put(st, Head(keys), OneByte, NoPutOptions, 0, n).store,
              Tail(keys), n + 1)

InitList ==
  \E S \in SUBSET ListKeys :
    /\ store = putAll(EmptyStore, sortKeys(S), 0)
    /\ versions = Cardinality(S)
    /\ written = [k \in S |-> OneByte]
    /\ now = 0
    /\ last = NoCall
    /\ pager = NoPager
    /\ loop = NoLoop
    /\ files = NoFiles
    /\ dirs = {}
    /\ procs = [p \in Callers |-> IdleProc]
    /\ sanitise = TRUE
    /\ runtime = NoRuntime

ListOptionsOf(prefix, limit, cursor, delimiter, include) ==
  [prefix |-> prefix, limit |-> limit, cursor |-> cursor, delimiter |-> delimiter,
   include |-> include]

Prefixes == {Undefined, Some(<<"a">>), Some(<<"a", "/">>)}
PageSizes == {1, 2, 3}
Limits == {Some(Num(n)) : n \in PageSizes}
            \cup {Some(Num(0)), Some(Num(MAX_LIST_KEYS + 1)), Some(NaN),
                  Some(Str(<<"1">>))}
Cursors == {Undefined, Some(base64Encode(KeyAB)), Some(base64Encode(KeyB))}
Delimiters == {Undefined, Some(<<"/">>)}

ListReturned(options, out, nextPager) ==
  /\ last' = Call("list", <<>>, NoValue, options, out)
  /\ store' = out.store
  /\ pager' = nextPager
  /\ UNCHANGED <<now, versions, written, fileVars, loop>>

ListOp(options) == ListReturned(options, R2Bucket_list(store, options), NoPager)

\* The keys of the objects of a list result.
objectKeys(result) == [i \in DOMAIN result.objects |-> result.objects[i].key]

\* The caller's record after a page: the keys received so far, the cursor
\* to pass on, and whether the listing is complete.
pagerAfter(prefix, n, pages, keys, result) ==
  [active |-> TRUE, prefix |-> prefix, limit |-> n, pages |-> pages,
   keys |-> keys \o objectKeys(result),
   cursor |-> result.cursor,
   done |-> ~result.truncated /\ ~IsDefined(result.cursor)]

PageReturned(options, out, pages, keys) ==
  ListReturned(options, out,
               pagerAfter(options.prefix, The(options.limit).n, pages, keys, out.result))

PageOp(options, pages, keys) ==
  PageReturned(options, R2Bucket_list(store, options), pages, keys)

\* A caller asks for the first page of n keys under a prefix.
ListFirst(prefix, n) ==
  PageOp(ListOptionsOf(prefix, Some(Num(n)), Undefined, Undefined, <<>>), 1, <<>>)

\* The caller passes the cursor of its last page to get the next one.
ListNext ==
  /\ pager.active /\ ~pager.done /\ pager.pages < MaxPages
  /\ PageOp(ListOptionsOf(pager.prefix, Some(Num(pager.limit)), pager.cursor,
                          Undefined, <<>>),
            pager.pages + 1, pager.keys)

\* list with any options
ListAny ==
  /\ \E p \in Prefixes, l \in Limits, c \in Cursors, d \in Delimiters :
       ListOp(ListOptionsOf(p, l, c, d, <<>>))

\* list from the first key with a metadata group included
ListInclude ==
  /\ \E l \in Limits, d \in Delimiters :
       ListOp(ListOptionsOf(Undefined, l, Undefined, d, <<"httpMetadata">>))

ListFirstPage == /\ \E p \in Prefixes, n \in PageSizes : ListFirst(p, n)

DeleteListed == /\ \E k \in ListKeys : DeleteOp(k)

NextList == ListAny \/ ListInclude \/ ListFirstPage \/ ListNext \/ DeleteListed

SpecList == InitList /\ [][NextList]_vars
(***************************************************************************)
(* The fetch loop of list, one iteration at a time: each `await this.#list` *)
(* is a step, and keys may be deleted between two of them.                 *)
(***************************************************************************)
\* `objects.length + delimitedPrefixes.size < limit`, false of NaN
whileHolds(l) ==
  ~l.limit.nan /\ Len(l.objects) + Len(l.delimitedPrefixes) < l.limit.n

\* `if (include.length > 0) limit = Math.min(limit, 100)`, NaN staying NaN
loopLimit(limit, include) ==
  IF limit.nan THEN limit ELSE Num(effectiveLimit(limit.n, include))

\* list is called: the limit is validated and the loop is entered.
LoopBegin ==
  /\ loop.pc \in {"idle", "returned"}
  /\ \E p \in Prefixes, l \in Limits, c \in Cursors, d \in Delimiters :
       loop' = IF invalidLimit(The(l))
                 THEN [pc |-> "returned",
                       result |-> ErrorResult(throwR2Error("LIST", 400,
                                    "MaxKeys params must be positive integer <= 1000."))]
                 ELSE [pc |-> "while", prefix |-> orDefault(p, <<>>),
                       limit |-> loopLimit(The(l), <<>>), include |-> <<>>,
                       delimiter |-> d, cursor |-> c,
                       objects |-> <<>>, delimitedPrefixes |-> <<>>]
  /\ UNCHANGED <<store, now, versions, last, written, pager, fileVars>>

\* The loop after its query returned r.
loopAfter(l, r) ==
  IF loopBreaks(r.objects)
    THEN [l EXCEPT !.pc = "return", !.cursor = r.cursor,
                   !.delimitedPrefixes = r.delimitedPrefixes]
    ELSE [l EXCEPT !.cursor = r.cursor, !.delimitedPrefixes = r.delimitedPrefixes,
                   !.objects = @ \o r.objects]

\* The loop after one more iteration over the store st.
loopIteration(st, l) ==
  loopAfter(l, R2Bucket_list1(st, l.prefix, fetchLimit(l.limit.n, l.objects),
                              l.include, l.delimitedPrefixes, l.delimiter, l.cursor))

\* One iteration: the query, `cursor = newCursor`, the break or the push.
LoopFetch ==
  /\ loop.pc = "while" /\ whileHolds(loop)
  /\ loop' = loopIteration(store, loop)
  /\ UNCHANGED <<store, now, versions, last, written, pager, fileVars>>

\* The condition of the while is false: the loop is left.
LoopExit ==
  /\ loop.pc = "while" /\ ~whileHolds(loop)
  /\ loop' = [loop EXCEPT !.pc = "return"]
  /\ UNCHANGED <<store, now, versions, last, written, pager, fileVars>>

\* `if (cursor !== undefined) truncated = true; ... return {...}`
LoopReturn ==
  /\ loop.pc = "return"
  /\ loop' = [pc |-> "returned",
              result |-> listReturn(store, [objects |-> loop.objects,
                                            delimitedPrefixes |-> loop.delimitedPrefixes,
                                            cursor |-> loop.cursor, io |-> <<>>]).result]
  /\ UNCHANGED <<store, now, versions, last, written, pager, fileVars>>

\* Another caller deletes a key, possibly between two iterations.
LoopDelete ==
  /\ \E k \in ListKeys :
       /\ store' = R2Bucket_delete(store, k).store
       /\ UNCHANGED <<now, versions, last, written, pager, fileVars, loop>>

NextLoop == LoopBegin \/ LoopFetch \/ LoopExit \/ LoopReturn \/ LoopDelete

SpecLoop == InitList /\ [][NextLoop]_vars

(***************************************************************************)
(* Listing with metadata groups: a bucket of more keys than the cap of     *)
(* 100, each stored with both groups of metadata; a caller lists once,     *)
(* with or without groups included, and heads of keys are taken.           *)
(***************************************************************************)
Digit(n) == <<"0", "1", "2", "3", "4", "5", "6", "7", "8", "9">>[n + 1]

\* The key of three digits for n: keys in ascending order of n.
NumberedKey(n) == <<Digit(n \div 100), Digit((n \div 10) % 10), Digit(n % 10)>>

BothGroups ==
  [NoPutOptions EXCEPT !.httpMetadata = Some(Obj([contentType |-> Str(<<"x">>)])),
                       !.customMetadata = Some(Obj([a |-> Str(<<"x">>)]))]

\* What put stores under the key numbered n, with both groups of metadata.
putNumbered(n) ==
  R2Bucket_put(EmptyStore, NumberedKey(n), OneByte, BothGroups, 0, n).store[NumberedKey(n)]

InitInclude ==
  /\ store = [k \in {NumberedKey(n) : n \in 0..(ManyKeys - 1)} |->
               putNumbered(CHOOSE n \in 0..(ManyKeys - 1) : NumberedKey(n) = k)]
  /\ versions = ManyKeys
  /\ written = [k \in {NumberedKey(n) : n \in 0..(ManyKeys - 1)} |-> OneByte]
  /\ now = 0
  /\ last = NoCall
  /\ pager = NoPager
  /\ loop = NoLoop
  /\ files = NoFiles
  /\ dirs = {}
  /\ procs = [p \in Callers |-> IdleProc]
  /\ sanitise = TRUE
  /\ runtime = NoRuntime

IncludeLimits == {2, 99, 100, 101, MAX_LIST_KEYS}
Includes ==
  {<<>>, <<"httpMetadata">>, <<"customMetadata">>, <<"httpMetadata", "customMetadata">>}
\* The first keys, and the keys around the hundredth.
HeadKeys == {NumberedKey(n) : n \in (0..9) \cup (95..(ManyKeys - 1))}

\* The caller lists from the first key, once.
IncludeFirst ==
  /\ ~pager.active
  /\ \E n \in IncludeLimits, i \in Includes :
       PageOp(ListOptionsOf(Undefined, Some(Num(n)), Undefined, Undefined, i), 1, <<>>)

HeadStored == /\ \E k \in HeadKeys : HeadOp(k)

NextInclude == IncludeFirst \/ HeadStored

SpecInclude == InitInclude /\ [][NextInclude]_vars

(***************************************************************************)
(* FileStorage under concurrent callers: each call is begun, runs its file *)
(* operations one step at a time, and ends; a put may die between its two  *)
(* writes.                                                                 *)
(***************************************************************************)
KeyA == <<"a">>
\* With root /r and no sanitising: ../r2/x joins to /r2/x, ../x to /x.
KeySibling == <<".", ".", "/", "r", "2", "/", "x">>
KeyAbove == <<".", ".", "/", "x">>
KeyABC == <<"a", "/", "b", "/", "c">>
FileKeys == {KeyA, KeyAB}
ClimbingKeys == {KeySibling, KeyAbove}
FileValues == {<<1>>, <<2, 3>>}

\* The number of calls begun so far.
callsBegun == procs[1].calls + procs[2].calls

\* procs after caller p began the call `call`; a put or delete takes `alone`
\* from the other calls of its key.
began(p, call, writer) ==
  [q \in Callers |->
     IF q = p THEN call
     ELSE IF writer /\ procs[q].key = call.key THEN [procs[q] EXCEPT !.alone = FALSE]
     ELSE procs[q]]

\* The record of a call as it begins, or as it ends at once with `result`.
callOf(p, op, key, value, metadata, result) ==
  [op |-> op, pc |-> IF result = Pending THEN "begun" ELSE "done",
   key |-> key, value |-> value, metadata |-> metadata, expiration |-> Undefined,
   path |-> IF IsDefined(keyPath(sanitise, key).path)
              THEN The(keyPath(sanitise, key).path) ELSE <<>>,
   sanitised |-> keyPath(sanitise, key).sanitised,
   read |-> <<>>, result |-> result,
   calls |-> procs[p].calls + 1,
   alone |-> \A q \in Callers \ {p} :
               ~(procs[q].pc # "done" /\ procs[q].op \in {"put", "delete"}
                 /\ procs[q].key = key),
   before |-> getMaybeExpired(files, dirs, sanitise, key)]

Begin(p, call, writer) ==
  /\ procs[p].pc = "done"
  /\ p = 2 => procs[1].pc # "done"
  /\ callsBegun < MaxCalls
  /\ procs' = began(p, call, writer)
  /\ UNCHANGED <<files, dirs, sanitise, runtime, bucketVars>>

\* procs after caller p's call took a step.
stepped(p, pc, read, result) ==
  [procs EXCEPT ![p] = [@ EXCEPT !.pc = pc, !.read = read, !.result = result]]

\* The puts made: either value under a key of the root, one value under a
\* key two directories down and under a key that climbs.
PutsOfFiles ==
  {[key |-> k, value |-> v] : k \in FileKeys, v \in FileValues}
    \cup {[key |-> k, value |-> <<1>>] : k \in {KeyABC} \cup ClimbingKeys}

\* FileStorage.put begins: keyPath, and ERR_TRAVERSAL without a path.  The
\* metadata is what R2Bucket.put builds for the value.
BeginPutOf(p, key, value) ==
  Begin(p, callOf(p, "put", key, value,
                  Some(buildMetadata(key, value, NoPutOptions, 0, callsBegun)),
                  IF IsDefined(keyPath(sanitise, key).path)
                    THEN Pending ELSE Thrown("ERR_TRAVERSAL")),
        TRUE)

BeginPut ==
  /\ \E p \in Callers, put \in PutsOfFiles :
       BeginPutOf(p, put.key, put.value)


\* `await writeFile(filePath, value)`
PutValueWritten(p, w) ==
  /\ procs[p].op = "put" /\ procs[p].pc = "begun"
  /\ files' = w.files
  /\ dirs' = w.dirs
  /\ procs' = IF w.code # "" THEN stepped(p, "done", <<>>, Thrown(putThrows(w.code)))
              ELSE stepped(p, "value written", <<>>, Pending)
  /\ UNCHANGED <<sanitise, runtime, bucketVars>>

PutValue ==
  /\ \E p \in Callers :
       PutValueWritten(p, writeFile(files, dirs, procs[p].path, ValueFile(procs[p].value)))

\* The sidecar is written, or a stale one deleted.
PutSidecarWritten(p, code, fs, ds) ==
  /\ procs[p].op = "put" /\ procs[p].pc = "value written"
  /\ files' = fs
  /\ dirs' = ds
  /\ procs' = stepped(p, "done", <<>>, IF code # "" THEN Thrown(code) ELSE ReturnedVoid)
  /\ UNCHANGED <<sanitise, runtime, bucketVars>>

PutSidecar ==
  /\ \E p \in Callers :
       IF needsSidecar(procs[p].expiration, procs[p].metadata, procs[p].sanitised)
         THEN LET w == writeFile(files, dirs, procs[p].path \o metaSuffix,
                                 SidecarFile(procs[p].key, procs[p].expiration,
                                             procs[p].metadata))
              IN  PutSidecarWritten(p, w.code, w.files, w.dirs)
         ELSE LET d == deleteFile(files, dirs, procs[p].path \o metaSuffix)
              IN  PutSidecarWritten(p, d.code, d.files, dirs)

\* The process of a put dies after the value file is written and before the
\* sidecar is.
PutCrash ==
  /\ \E p \in Callers :
       /\ procs[p].op = "put" /\ procs[p].pc = "value written"
       /\ procs' = stepped(p, "done", <<>>, Crashed)
       /\ UNCHANGED <<files, dirs, sanitise, runtime, bucketVars>>

\* getMaybeExpired begins.
BeginGet ==
  /\ \E p \in Callers, key \in FileKeys :
       Begin(p, callOf(p, "get", key, <<>>, Undefined,
                       IF IsDefined(keyPath(sanitise, key).path)
                         THEN Pending ELSE ReturnedUndefined),
             FALSE)

\* `await readFile(filePath)`
GetValueRead(p, r) ==
  /\ procs[p].op = "get" /\ procs[p].pc = "begun"
  /\ procs' = IF getAfterRead(r) # Pending THEN stepped(p, "done", <<>>, getAfterRead(r))
              ELSE stepped(p, "value read", The(r.content).bytes, Pending)
  /\ UNCHANGED <<files, dirs, sanitise, runtime, bucketVars>>

GetValue == /\ \E p \in Callers : GetValueRead(p, readFile(files, dirs, procs[p].path))

\* `await this.meta(filePath)` in getMaybeExpired
GetSidecar ==
  /\ \E p \in Callers :
       /\ procs[p].op = "get" /\ procs[p].pc = "value read"
       /\ procs' = stepped(p, "done", procs[p].read,
                           getAfterMeta(procs[p].read, meta(files, dirs, procs[p].path)))
       /\ UNCHANGED <<files, dirs, sanitise, runtime, bucketVars>>

\* hasMaybeExpired begins: keyPath and existsSync.
BeginHas ==
  /\ \E p \in Callers, key \in FileKeys :
       Begin(p, callOf(p, "has", key, <<>>, Undefined,
                       IF /\ IsDefined(keyPath(sanitise, key).path)
                          /\ existsSync(files, dirs, The(keyPath(sanitise, key).path))
                         THEN Pending ELSE ReturnedUndefined),
             FALSE)

\* `await this.meta(filePath)` in hasMaybeExpired
HasSidecar ==
  /\ \E p \in Callers :
       /\ procs[p].op = "has" /\ procs[p].pc = "begun"
       /\ procs' = stepped(p, "done", <<>>, hasAfterMeta(meta(files, dirs, procs[p].path)))
       /\ UNCHANGED <<files, dirs, sanitise, runtime, bucketVars>>

\* deleteMaybeExpired begins.
BeginDelete ==
  /\ \E p \in Callers, key \in FileKeys :
       Begin(p, callOf(p, "delete", key, <<>>, Undefined,
                       IF IsDefined(keyPath(sanitise, key).path)
                         THEN Pending ELSE ReturnedBoolean(FALSE)),
             TRUE)

\* What deleteMaybeExpired returns when a deleteFile failed with `code`.
deleteFailed(code) == IF deleteCatches(code) THEN ReturnedBoolean(FALSE) ELSE Thrown(code)

\* `const existed = await deleteFile(filePath)`
DeleteValueUnlinked(p, d) ==
  /\ procs[p].op = "delete" /\ procs[p].pc = "begun"
  /\ files' = d.files
  /\ procs' = IF d.code # "" THEN stepped(p, "done", <<>>, deleteFailed(d.code))
              ELSE stepped(p, "value deleted", <<>>,
                           [Pending EXCEPT !.existed = d.existed])
  /\ UNCHANGED <<dirs, sanitise, runtime, bucketVars>>

DeleteValue ==
  /\ \E p \in Callers : DeleteValueUnlinked(p, deleteFile(files, dirs, procs[p].path))

\* `await deleteFile(filePath + metaSuffix); return existed;`
DeleteSidecarUnlinked(p, d) ==
  /\ procs[p].op = "delete" /\ procs[p].pc = "value deleted"
  /\ files' = d.files
  /\ procs' = stepped(p, "done", <<>>,
                      IF d.code # "" THEN deleteFailed(d.code)
                      ELSE ReturnedBoolean(procs[p].result.existed))
  /\ UNCHANGED <<dirs, sanitise, runtime, bucketVars>>

DeleteSidecar ==
  /\ \E p \in Callers :
       DeleteSidecarUnlinked(p, deleteFile(files, dirs, procs[p].path \o metaSuffix))

InitFile ==
  /\ store = EmptyStore
  /\ now = 0
  /\ versions = 0
  /\ last = NoCall
  /\ written = EmptyStore
  /\ pager = NoPager
  /\ loop = NoLoop
  /\ files = NoFiles
  /\ dirs = {}
  /\ procs = [p \in Callers |-> IdleProc]
  /\ sanitise \in BOOLEAN
  /\ runtime = NoRuntime

NextFile ==
  \/ BeginPut \/ PutValue \/ PutSidecar \/ PutCrash
  \/ BeginGet \/ GetValue \/ GetSidecar
  \/ BeginHas \/ HasSidecar
  \/ BeginDelete \/ DeleteValue \/ DeleteSidecar

SpecFile == InitFile /\ [][NextFile]_vars

(***************************************************************************)
(* FileStorage under one caller: calls follow one another, puts come with  *)
(* and without metadata and expiration, under a plain key, a key that ends *)
(* with the sidecar suffix and a key that sanitising changes; the caller   *)
(* lists every key between two calls.                                      *)
(***************************************************************************)
KeyAMeta == KeyA \o metaSuffix
SeqKeys == {KeyA, KeyAMeta, KeyAbove}
Expirations == {Undefined, Some(1)}

\* The files walk(root) yields: every file below the root.
walk(fs, root) == {f \in DOMAIN fs : startsWith(f, root \o Slash)}

\* FileStorage.listAllMaybeExpired: the entries pushed, each with the file
\* it was pushed for, the order being that of the walk; the codes of the
\* errors reading a sidecar can throw, the call throwing when there is one.
listAllMaybeExpired(fs, ds) ==
  LET walked == {f \in walk(fs, Root) : ~endsWith(f, metaSuffix)}
      entry(f) ==
        LET m == meta(fs, ds, f).record
            name == sliceFrom(f, Len(Root) + 1)
        IN  [file |-> f, name |-> IF IsDefined(m.key) THEN The(m.key) ELSE name,
             expiration |-> m.expiration, metadata |-> m.metadata]
      codes == {meta(fs, ds, f).code : f \in walked} \ {""}
  IN  [codes |-> codes, keys |-> IF codes # {} THEN {} ELSE {entry(f) : f \in walked}]

\* The value of a put tells which call it was.
BeginPutAlone ==
  /\ \E key \in SeqKeys, e \in Expirations, withMetadata \in BOOLEAN :
       Begin(1, [callOf(1, "put", key, <<callsBegun + 1>>,
                        IF withMetadata
                          THEN Some(buildMetadata(key, <<callsBegun + 1>>, NoPutOptions,
                                                  0, callsBegun))
                          ELSE Undefined,
                        IF IsDefined(keyPath(sanitise, key).path)
                          THEN Pending ELSE Thrown("ERR_TRAVERSAL"))
                  EXCEPT !.expiration = e],
             TRUE)

BeginGetAlone ==
  /\ \E key \in SeqKeys :
       Begin(1, callOf(1, "get", key, <<>>, Undefined,
                       IF IsDefined(keyPath(sanitise, key).path)
                         THEN Pending ELSE ReturnedUndefined),
             FALSE)

BeginHasAlone ==
  /\ \E key \in SeqKeys :
       Begin(1, callOf(1, "has", key, <<>>, Undefined,
                       IF /\ IsDefined(keyPath(sanitise, key).path)
                          /\ existsSync(files, dirs, The(keyPath(sanitise, key).path))
                         THEN Pending ELSE ReturnedUndefined),
             FALSE)

BeginDeleteAlone ==
  /\ \E key \in SeqKeys :
       Begin(1, callOf(1, "delete", key, <<>>, Undefined,
                       IF IsDefined(keyPath(sanitise, key).path)
                         THEN Pending ELSE ReturnedBoolean(FALSE)),
             TRUE)

\* The caller lists every key, no call being in progress.
ListAll ==
  /\ procs[1].pc = "done"
  /\ last' = [op |-> "listAllMaybeExpired", result |-> listAllMaybeExpired(files, dirs)]
  /\ UNCHANGED <<store, now, versions, written, pager, loop, fileVars>>

NextAlone ==
  \/ BeginPutAlone \/ PutValue \/ PutSidecar
  \/ BeginGetAlone \/ GetValue \/ GetSidecar
  \/ BeginHasAlone \/ HasSidecar
  \/ BeginDeleteAlone \/ DeleteValue \/ DeleteSidecar
  \/ ListAll

SpecAlone == InitFile /\ [][NextAlone]_vars

(***************************************************************************)
(* The alarm of FileStorage: one caller sets, reads and deletes the alarm, *)
(* puts and deletes the user key "a", and lists every key.                 *)
(***************************************************************************)
\* The reserved key, written as one symbol of the alphabet.
AlarmKey == <<"__MINIFLARE_ALARM__">>
AlarmTimes == {0, 12}

RECURSIVE decimal(_)
\* new TextEncoder().encode(String(scheduledTime)), for a natural number
decimal(n) == IF n < 10 THEN <<48 + n>> ELSE decimal(n \div 10) \o <<48 + (n % 10)>>

RECURSIVE parseDecimal(_, _)
parseDecimal(bytes, n) ==
  IF bytes = <<>> THEN n ELSE parseDecimal(Tail(bytes), 10 * n + (Head(bytes) - 48))

\* Number(new TextDecoder().decode(bytes)): 0 for no text, NaN for text that
\* is no number.
decodeNumber(bytes) ==
  IF \A i \in DOMAIN bytes : bytes[i] \in 48..57 THEN Num(parseDecimal(bytes, 0)) ELSE NaN

\* FileStorage.getAlarm: the number read, null, or the code of the error
\* thrown.
getAlarm(fs, ds) ==
  LET filePath == keyPath(sanitise, AlarmKey).path
      r == readFile(fs, ds, The(filePath))
  IN  IF ~IsDefined(filePath) THEN [kind |-> "null"]
      ELSE IF r.code # ""
        THEN (IF r.code = "ENOTDIR" THEN [kind |-> "null"]
              ELSE [kind |-> "error", code |-> r.code])
      ELSE IF ~IsDefined(r.content) THEN [kind |-> "null"]
      ELSE [kind |-> "number", number |-> decodeNumber(The(r.content).bytes)]

\* getAlarm returns; the caller remembers the time it set last, if setting
\* it was its last alarm call.
GetAlarm ==
  /\ procs[1].pc = "done"
  /\ last' = [op |-> "getAlarm", result |-> getAlarm(files, dirs),
              set |-> IF last.op = "setAlarm" THEN Some(last.scheduledTime)
                      ELSE Undefined]
  /\ UNCHANGED <<store, now, versions, written, pager, loop, fileVars>>

\* FileStorage.setAlarm
SetAlarm ==
  /\ procs[1].pc = "done"
  /\ \E t \in AlarmTimes :
       LET filePath == keyPath(sanitise, AlarmKey).path
           w == writeFile(files, dirs, The(filePath), ValueFile(decimal(t)))
       IN  /\ last' = [op |-> "setAlarm", scheduledTime |-> t,
                       code |-> IF ~IsDefined(filePath) THEN "ERR_TRAVERSAL"
                                ELSE putThrows(w.code)]
           /\ files' = IF IsDefined(filePath) THEN w.files ELSE files
           /\ dirs' = IF IsDefined(filePath) THEN w.dirs ELSE dirs
  /\ UNCHANGED <<store, now, versions, written, pager, loop, procs, sanitise, runtime>>

\* FileStorage.deleteAlarm: both files are unlinked, the second only when
\* the first unlink did not throw.
DeleteAlarm ==
  /\ procs[1].pc = "done"
  /\ LET filePath == keyPath(sanitise, AlarmKey).path
         d1 == deleteFile(files, dirs, The(filePath))
         d2 == deleteFile(d1.files, dirs, The(filePath) \o metaSuffix)
     IN  /\ last' = [op |-> "deleteAlarm",
                     code |-> IF ~IsDefined(filePath) THEN ""
                              ELSE IF d1.code # ""
                                THEN (IF d1.code = "ENOTDIR" THEN "" ELSE d1.code)
                              ELSE IF d2.code = "ENOTDIR" THEN "" ELSE d2.code]
         /\ files' = IF ~IsDefined(filePath) THEN files
                     ELSE IF d1.code # "" THEN d1.files ELSE d2.files
  /\ UNCHANGED <<store, now, versions, written, pager, loop, dirs, procs, sanitise, runtime>>

\* put and delete of the user key "a"
BeginPutUser ==
  /\ \E withMetadata \in BOOLEAN :
       Begin(1, callOf(1, "put", KeyA, <<callsBegun + 1>>,
                       IF withMetadata
                         THEN Some(buildMetadata(KeyA, <<callsBegun + 1>>, NoPutOptions,
                                                 0, callsBegun))
                         ELSE Undefined,
                       Pending),
             TRUE)

BeginDeleteUser == /\ Begin(1, callOf(1, "delete", KeyA, <<>>, Undefined, Pending), TRUE)

NextAlarm ==
  \/ SetAlarm \/ GetAlarm \/ DeleteAlarm
  \/ BeginPutUser \/ PutValue \/ PutSidecar
  \/ BeginDeleteUser \/ DeleteValue \/ DeleteSidecar
  \/ ListAll

SpecAlarm == InitFile /\ [][NextAlarm]_vars

(***************************************************************************)
(* Properties of the gateway.                                              *)
(***************************************************************************)

C2_InvalidKeyRejected ==
  (/\ last.op \in {"head", "get", "put", "delete"}
   /\ \/ last.key \in {<<>>, <<".">>, <<".", ".">>}
      \/ Len(encode(last.key)) > 512) =>
    /\ last.result.kind = "error"
    /\ last.io = <<>>

\* C2's case: put of a key of 257 characters and 513 bytes has failed.
C2_Reached ==
  /\ last.op = "put"
  /\ Len(last.key) <= 512 /\ Len(encode(last.key)) > 512
  /\ last.result.kind = "error"
  /\ last.io = <<>>

\* C3: for a stored, non-empty object at k with etag E, get with
\* onlyIf {etagMatches: E} returns the object with its full body, and get with
\* onlyIf {etagMatches: X}, X different from E, returns the object's metadata
\* without a body, and not null.
C3_ConditionalGet ==
  (/\ last.op = "get"
   /\ last.key \in DOMAIN store
   /\ store[last.key].value # <<>>
   /\ ~IsDefined(last.options.range)
   /\ \E x \in {EtagOf(FiveBytes), EtagOf(NoBytes), NeverAnEtag} :
        last.options.onlyIf = OnlyIfOf(Some(Str(x)), Undefined, Undefined, Undefined)) =>
    LET object == store[last.key]
        X == The(last.options.onlyIf).fields.etagMatches
    IN  IF X = Some(Str(The(object.metadata).etag))
          THEN last.result = R2ObjectBody(The(object.metadata), object.value)
          ELSE last.result = R2Object(The(object.metadata))

\* C3's case: get with the etag of another value has returned the metadata
\* of a stored object of five bytes, without a body.
C3_Reached ==
  /\ last.op = "get"
  /\ last.key \in DOMAIN store
  /\ Len(store[last.key].value) = 5
  /\ last.options.onlyIf =
       OnlyIfOf(Some(Str(EtagOf(NoBytes))), Undefined, Undefined, Undefined)
  /\ last.result.kind = "object"
  /\ last.result.metadata.size = 5

\* C4: when an object exists at k and the onlyIf predicate of a well-formed
\* option bag fails against its current metadata, put returns null and the
\* store, value bytes and metadata of k included, is after the call as it
\* was before it.
C4_RefusedPutWritesNothing ==
  [][(/\ last'.op = "put" /\ now' = now
      /\ last'.key \in DOMAIN store
      /\ ~IsDefined(validateR2PutOptions(last'.options))
      /\ testR2Conditional(parseOnlyIf(last'.options.onlyIf),
                           The(store[last'.key].metadata)))
       => (last'.result = NullResult /\ store' = store)]_vars

\* C4's case: put with an uploadedBefore date that the stored object does
\* not precede has returned null.
C4_Reached ==
  /\ last.op = "put"
  /\ last.key \in DOMAIN store
  /\ last.options.onlyIf = OnlyIfOf(Undefined, Undefined, Some(Date(1)), Undefined)
  /\ The(store[last.key].metadata).uploaded = 1
  /\ last.result = NullResult

\* C5, as stated: for a stored object of size S, get with range {offset: o,
\* length: l}, l >= 1 and o + l <= S, returns a body of exactly the bytes
\* [o, o + l) of the stored value, and get with range {suffix: n},
\* 1 <= n <= S, returns a body of exactly its last n bytes.
C5_RangedGet ==
  (/\ last.op = "get"
   /\ last.key \in DOMAIN store
   /\ ~IsDefined(last.options.onlyIf)
   /\ IsDefined(last.options.range)
   /\ The(last.options.range).t = "object") =>
    LET range == The(last.options.range).fields
        value == store[last.key].value
        S == Len(value)
    IN  /\ \A o \in 0..S, l \in 1..S :
             (o + l <= S /\ range = The(RangeOf(Some(Num(o)), Some(Num(l)),
                                                Undefined).range).fields)
               => (last.result.kind = "body"
                   /\ last.result.body = SubSeq(value, o + 1, o + l))
        /\ \A n \in 1..S :
             range = The(RangeOf(Undefined, Undefined, Some(Num(n))).range).fields
               => (last.result.kind = "body"
                   /\ last.result.body = SubSeq(value, S - n + 1, S))

\* C6, as stated: get of a stored, non-empty object with range {length: 0}
\* fails with the error that the requested range is not satisfiable.
C6_ZeroLengthNotSatisfiable ==
  (/\ last.op = "get"
   /\ last.key \in DOMAIN store
   /\ store[last.key].value # <<>>
   /\ last.options = RangeOf(Undefined, Some(Num(0)), Undefined)) =>
    last.result = ErrorResult(RangeNotSatisfiable)

\* C7: with M stored keys that start with the prefix and 1 <= N < M, list
\* with limit N, no cursor and no delimiter returns exactly N objects,
\* truncated = true, and a cursor.
C7_PageSize ==
  (/\ last.op = "list"
   /\ ~IsDefined(last.options.cursor)
   /\ ~IsDefined(last.options.delimiter)
   /\ IsDefined(last.options.limit)
   /\ isInteger(The(last.options.limit))) =>
    LET N == The(last.options.limit).n
        M == Cardinality({k \in DOMAIN store :
                            startsWith(k, orDefault(last.options.prefix, <<>>))})
    IN  (1 <= N /\ N < M) =>
          /\ last.result.kind = "list"
          /\ Len(last.result.objects) = N
          /\ last.result.truncated = TRUE
          /\ IsDefined(last.result.cursor)

\* C7's case: list with limit 2 over four stored keys has returned two objects.
C7_Reached ==
  /\ last.op = "list"
  /\ last.options = ListOptionsOf(Undefined, Some(Num(2)), Undefined, Undefined, <<>>)
  /\ Cardinality(DOMAIN store) = 4
  /\ Len(last.result.objects) = 2
  /\ last.result.truncated

\* C8, as stated: with the store unchanged, the pages of list with limit N,
\* from no cursor and each with the cursor of the page before, until a page
\* has truncated = false and no cursor, hold together every stored key that
\* starts with the prefix exactly once, in ascending order.
C8_PagesCoverEveryKeyOnce ==
  (pager.active /\ pager.done) =>
    pager.keys = sortKeys({k \in DOMAIN store :
                             startsWith(k, orDefault(pager.prefix, <<>>))})

\* C9, as stated: list with delimiter d, no cursor and a limit no smaller than
\* the number of matching keys returns as objects exactly the matching keys
\* whose remainder after the prefix does not contain d, and as
\* delimitedPrefixes exactly the distinct prefix + (text up to and including
\* the first d) of the matching keys whose remainder contains d.
C9_DelimiterGrouping ==
  (/\ last.op = "list"
   /\ last.result.kind = "list"
   /\ IsDefined(last.options.delimiter)
   /\ ~IsDefined(last.options.cursor)
   /\ isInteger(The(last.options.limit))) =>
    LET p == orDefault(last.options.prefix, <<>>)
        d == The(last.options.delimiter)
        matching == {k \in DOMAIN store : startsWith(k, p)}
        plain == {k \in matching : ~includes(sliceFrom(k, Len(p)), d)}
        groups == {p \o splitFirst(sliceFrom(k, Len(p)), d) \o d : k \in matching \ plain}
    IN  Cardinality(matching) <= The(last.options.limit).n =>
          /\ Range(objectKeys(last.result)) = plain
          /\ Range(last.result.delimitedPrefixes) = groups

\* C10: put with an md5 option and no onlyIf, the md5 a hex string or raw
\* bytes whose hex differs from the digest of the canonical bytes of the
\* value, fails with an error, and the store, any object at k included, is
\* after the call as it was before it.
C10_DigestMismatchWritesNothing ==
  [][(/\ last'.op = "put" /\ now' = now
      /\ ~IsDefined(last'.options.onlyIf)
      /\ IsDefined(last'.options.md5)
      /\ IsDefined(toBytes(last'.value))
      /\ LET md5 == The(last'.options.md5)
             digest == createMD5(The(toBytes(last'.value)))
         IN  \/ md5.t = "string" /\ md5.s # digest
             \/ md5.t = "ArrayBuffer" /\ toHex(md5.bytes) # digest)
       => (last'.result.kind = "error" /\ store' = store)]_vars

\* C10's case: put over a stored object of five bytes, with the raw digest of
\* another value, has failed and the five bytes are still stored.
C10_Reached ==
  /\ last.op = "put"
  /\ last.options = [NoPutOptions EXCEPT !.md5 = Some(Buf(rawDigest(<<1>>)))]
  /\ last.result =
       ErrorResult(throwR2Error("PUT", 400,
         "The Content-MD5 you specified did not match what we received."))
  /\ last.key \in DOMAIN store
  /\ Len(store[last.key].value) = 5

(***************************************************************************)
(* Properties of the file storage.                                         *)
(***************************************************************************)

\* C11, as stated: a put with a key whose joined path does not lie inside the
\* root directory throws ERR_TRAVERSAL, and no file outside the root
\* directory is ever created.
C11_NothingOutsideRoot ==
  /\ \A p \in Callers :
       (/\ procs[p].op = "put" /\ procs[p].pc = "done"
        /\ ~inside(path_join(Root, IF sanitise THEN sanitisePath(procs[p].key)
                                   ELSE procs[p].key), Root))
         => procs[p].result = Thrown("ERR_TRAVERSAL")
  /\ \A f \in DOMAIN files : inside(f, Root)

\* C12, as stated: a delete of a key that is not stored completes without
\* error and leaves the files as they were: the step of deleteMaybeExpired
\* that unlinks the value file of a key with no value file raises no error
\* and changes no file.
C12_IdempotentDelete ==
  [][\A p \in Callers :
       (/\ procs[p].op = "delete" /\ procs[p].pc = "begun"
        /\ procs'[p].pc # "begun"
        /\ procs[p].path \notin DOMAIN files)
         => (procs'[p].result.kind # "error" /\ files' = files)]_vars

\* C13, as stated: in every reachable state of the files, for every key that
\* has both a value file and a sidecar with metadata, the size of the
\* metadata is the byte length of the value file and its etag is the digest
\* of the value file.
C13_MetadataMatchesValue ==
  \A f \in DOMAIN files :
    (/\ ~files[f].json
     /\ f \o metaSuffix \in DOMAIN files
     /\ files[f \o metaSuffix].json
     /\ IsDefined(files[f \o metaSuffix].metadata)) =>
      LET metadata == The(files[f \o metaSuffix].metadata)
      IN  /\ metadata.size = Len(files[f].bytes)
          /\ metadata.etag = createMD5(files[f].bytes)

\* C14, as stated: a get, whether it runs concurrently with a put that
\* overwrites the object or after a crash between the value write and the
\* sidecar write, never returns a body with metadata of another generation:
\* the digest of the returned body is the returned etag and its length is the
\* returned size.
C14_ReadAtomicity ==
  \A p \in Callers :
    (/\ procs[p].op = "get" /\ procs[p].pc = "done"
     /\ procs[p].result.kind = "stored"
     /\ IsDefined(procs[p].result.metadata)) =>
      LET metadata == The(procs[p].result.metadata)
      IN  /\ createMD5(procs[p].result.value) = metadata.etag
          /\ Len(procs[p].result.value) = metadata.size

\* C15, as stated: when a put over an existing object fails at any step (an
\* error from the value write, an error or a crash between the value write
\* and the sidecar write, a namespace collision) and no other call wrote or
\* deleted the key meanwhile, a later get returns the value and metadata of
\* the object as they were before the put.
C15_FailedPutLeavesPrior ==
  \A p \in Callers :
    (/\ procs[p].op = "put" /\ procs[p].pc = "done"
     /\ procs[p].result.kind \in {"error", "crashed"}
     /\ procs[p].alone
     /\ procs[p].before.kind = "stored"
     /\ \A q \in Callers \ {p} : procs[q].pc = "done") =>
      getMaybeExpired(files, dirs, sanitise, procs[p].key) = procs[p].before

(***************************************************************************)
(* Properties of list and of conditional put.                              *)
(***************************************************************************)

\* C16: list fails with an error, before any call to the storage substrate,
\* for every limit that is not of type number, is less than 1 or is greater
\* than 1000, and goes on to return a list for every other limit.
C16_LimitValidated ==
  last.op = "list" =>
    LET limit == orDefault(last.options.limit, Num(1000))
    IN  IF \/ limit.t # "number"
           \/ (~limit.nan /\ (limit.n < 1 \/ limit.n > 1000))
          THEN last.result.kind = "error" /\ last.io = <<>>
          ELSE last.result.kind = "list"

\* C16's case: list with limit 1001 over a store that holds keys has failed
\* without a call to the substrate.
C16_Reached ==
  /\ last.op = "list"
  /\ last.options.limit = Some(Num(1001))
  /\ DOMAIN store # {}
  /\ last.result.kind = "error"
  /\ last.io = <<>>

(***************************************************************************)
(* Properties of the file storage: keys under keys.                        *)
(***************************************************************************)

\* C17, as stated: a put of a key one of whose parent path segments is itself
\* a stored key throws ERR_NAMESPACE_KEY_CHILD and leaves every file, the
\* value and metadata of the parent key included, as it was.
C17_NamespaceKeyChild ==
  [][\A p \in Callers :
       (/\ procs[p].op = "put" /\ procs[p].pc = "begun"
        /\ procs'[p].pc # "begun"
        /\ belowFile(files, procs[p].path))
         => /\ procs'[p].result = Thrown("ERR_NAMESPACE_KEY_CHILD")
            /\ files' = files]_vars

\* C18: for a key with a parent path segment that is itself a stored key,
\* hasMaybeExpired and getMaybeExpired return undefined and
\* deleteMaybeExpired returns false; none of them throws, and none changes a
\* file, the parent key's included.
C18_KeyBelowKeyNotFound ==
  [][\A p \in Callers :
       /\ (/\ procs'[p].op = "has"
           /\ procs'[p].calls = procs[p].calls + 1
           /\ belowFile(files, procs'[p].path))
            => /\ procs'[p].pc = "done"
               /\ procs'[p].result = ReturnedUndefined
               /\ files' = files
       /\ (/\ procs[p].op \in {"get", "delete"} /\ procs[p].pc = "begun"
           /\ procs'[p].pc # "begun"
           /\ belowFile(files, procs[p].path))
            => /\ procs'[p].pc = "done"
               /\ procs'[p].result = IF procs[p].op = "delete"
                                       THEN ReturnedBoolean(FALSE)
                                       ELSE ReturnedUndefined
               /\ files' = files]_vars

\* C18's case: the only caller has stored "a", and its get of "a/b" has then
\* read under the file of "a" and returned undefined.
C18_Reached ==
  \E p \in Callers :
    /\ procs[p].op = "get" /\ procs[p].pc = "done"
    /\ procs[p].key = KeyAB
    /\ procs[p].calls = 2
    /\ \A q \in Callers \ {p} : procs[q].calls = 0
    /\ procs[p].result = ReturnedUndefined
    /\ path_join(Root, KeyA) \in DOMAIN files
    /\ ~files[path_join(Root, KeyA)].json

\* C19, as stated: when no object exists at k, put with onlyIf
\* {etagMatches: E} in a well-formed option bag takes the clause as failed:
\* it returns null and writes nothing, so k is still absent afterwards.
C19_ConditionalPutOnAbsent ==
  [][(/\ last'.op = "put" /\ now' = now
      /\ last'.key \notin DOMAIN store
      /\ ~IsDefined(validateR2PutOptions(last'.options))
      /\ IsDefined(last'.options.onlyIf)
      /\ The(last'.options.onlyIf).t = "object"
      /\ IsDefined(The(last'.options.onlyIf).fields.etagMatches))
       => (last'.result = NullResult /\ store' = store)]_vars

\* C20, as stated: list never returns fewer than limit entries, objects and
\* delimited prefixes together, while matching keys are left unenumerated:
\* a list without a cursor that returns fewer entries than its limit has
\* returned, as an object or under one of its delimited prefixes, every
\* stored key that starts with the prefix.
C20_ListFills ==
  (/\ last.op = "list"
   /\ last.result.kind = "list"
   /\ ~IsDefined(last.options.cursor)
   /\ isInteger(orDefault(last.options.limit, Num(1000)))
   /\ Len(last.result.objects) + Len(last.result.delimitedPrefixes)
        < orDefault(last.options.limit, Num(1000)).n) =>
    \A k \in DOMAIN store :
      startsWith(k, orDefault(last.options.prefix, <<>>)) =>
        \/ k \in Range(objectKeys(last.result))
        \/ \E d \in Range(last.result.delimitedPrefixes) : startsWith(k, d)

(***************************************************************************)
(* Properties of list: truncation, repetition, size and termination.       *)
(***************************************************************************)

\* C21, as stated: list returns truncated = true together with a cursor if
\* and only if a key that starts with the prefix remains after the keys
\* enumerated for the page; when the page has covered every remaining such
\* key, returned as an object or under a delimited prefix, it returns
\* truncated = false and no cursor.  Stated of the limits that are whole
\* numbers.
C21_TruncatedIffKeysRemain ==
  (/\ last.op = "list" /\ last.result.kind = "list"
   /\ isInteger(orDefault(last.options.limit, Num(1000)))) =>
    LET remaining == {k \in DOMAIN store :
                        /\ startsWith(k, orDefault(last.options.prefix, <<>>))
                        /\ IsDefined(last.options.cursor) =>
                             lexLess(base64Decode(The(last.options.cursor)), k)}
        covered == {k \in remaining :
                      \/ k \in Range(objectKeys(last.result))
                      \/ \E d \in Range(last.result.delimitedPrefixes) : startsWith(k, d)}
    IN  /\ last.result.truncated = IsDefined(last.result.cursor)
        /\ last.result.truncated = (covered # remaining)

\* C22, as stated: a single list call never returns the same key twice in
\* objects.
C22_NoKeyTwice ==
  (last.op = "list" /\ last.result.kind = "list") =>
    \A i, j \in DOMAIN last.result.objects :
      last.result.objects[i].key = last.result.objects[j].key => i = j

\* C23: for every accepted list call, the number of returned objects plus the
\* number of returned delimited prefixes is at most the effective limit: the
\* limit asked for, or the smaller of it and 100 when include is not empty.
C23_AtMostLimit ==
  (/\ last.op = "list" /\ last.result.kind = "list"
   /\ isInteger(orDefault(last.options.limit, Num(1000)))) =>
    LET limit == orDefault(last.options.limit, Num(1000)).n
        effective == IF last.options.include # <<>> /\ limit > 100 THEN 100 ELSE limit
    IN  Len(last.result.objects) + Len(last.result.delimitedPrefixes) <= effective

\* C23's case: list with limit 3 and an include over two stored keys has made
\* a second query and returned three objects.
C23_Reached ==
  /\ last.op = "list"
  /\ last.options = ListOptionsOf(Undefined, Some(Num(3)), Undefined, Undefined,
                                  <<"httpMetadata">>)
  /\ Cardinality(DOMAIN store) = 2
  /\ last.io = <<"list", "list">>
  /\ Len(last.result.objects) = 3

\* C24: the fetch loop of list terminates for every store and every accepted
\* option bag when each substrate call returns: from every state of the loop
\* in which the condition of the while holds, the iteration either leaves
\* the loop or adds at least one object, and the objects never pass the
\* limit, so that a call makes at most limit iterations.
C24_LoopTerminates ==
  (loop.pc = "while" /\ whileHolds(loop)) =>
    \/ loopIteration(store, loop).pc = "return"
    \/ /\ Len(loopIteration(store, loop).objects) > Len(loop.objects)
       /\ Len(loopIteration(store, loop).objects) <= loop.limit.n

\* C24's case: the loop has made a query that added an object, a second that
\* added none, and has been left.
C24_Reached ==
  /\ loop.pc = "return"
  /\ Len(loop.objects) = 1
  /\ loop.limit = Num(3)
  /\ ~IsDefined(loop.delimiter)
  /\ DOMAIN store = {}

(***************************************************************************)
(* Properties of list with metadata groups, and of get and head.           *)
(***************************************************************************)

numericRange(range) ==
  \/ ~IsDefined(range)
  \/ /\ The(range).t = "object"
     /\ \A f \in {"offset", "length", "suffix"} :
          IsDefined(The(range).fields[f]) => isInteger(The(The(range).fields[f]))

\* C26, as stated: get of a stored object of size 0 returns the object's
\* metadata without a body for every well-formed option bag, with or without
\* onlyIf or range, whether or not the onlyIf predicate holds.
C26_EmptyObjectWithoutBody ==
  (/\ last.op = "get"
   /\ last.key \in DOMAIN store
   /\ IsDefined(store[last.key].metadata)
   /\ The(store[last.key].metadata).size = 0
   /\ ~IsDefined(validateOnlyIf(orDefault(last.options.onlyIf, EmptyConditional)))
   /\ numericRange(last.options.range)) =>
    last.result = R2Object(The(store[last.key].metadata))

MalformedOnlyIfs ==
  { OnlyIfOf(Some(Num(5)), Undefined, Undefined, Undefined),
    OnlyIfOf(Undefined, Undefined, Some(Str(<<"1">>)), Undefined),
    Some(Str(<<"x">>)) }

\* Whether an option bag of get is malformed: its onlyIf, or a range that
\* is no object.
malformedGet(options) ==
  \/ options.onlyIf \in MalformedOnlyIfs
  \/ options.range = Some(Str(<<"x">>))

\* Whether an option bag of put is malformed: its onlyIf, an httpMetadata
\* field that is no string, a cacheExpiry that is no Date, a customMetadata
\* value that is no string, a customMetadata that is no object, or an md5
\* that is a number.
malformedPut(options) ==
  \/ options.onlyIf \in MalformedOnlyIfs
  \/ options.httpMetadata \in {Some(Obj([contentType |-> Num(1)])),
                               Some(Obj([cacheExpiry |-> Str(<<"1">>)]))}
  \/ options.customMetadata \in {Some(Obj([a |-> Num(1)])), Some(Str(<<"x">>))}
  \/ options.md5 = Some(Num(1))

\* C28: a get or put with a malformed option bag is rejected with an error
\* before any call to the storage substrate, and the store is after the call
\* as it was before it.
C28_RejectedBeforeStorage ==
  [][(\/ last'.op = "get" /\ malformedGet(last'.options)
      \/ last'.op = "put" /\ malformedPut(last'.options))
       => (/\ last'.result.kind = "error"
           /\ last'.io = <<>>
           /\ store' = store)]_vars

\* C28's case: a put whose customMetadata holds a number has been rejected
\* without a storage call, while the key holds an object.
C28_Reached ==
  /\ last.op = "put"
  /\ last.options.customMetadata = Some(Obj([a |-> Num(1)]))
  /\ last.result.kind = "error"
  /\ last.io = <<>>
  /\ last.key \in DOMAIN store
  /\ IsDefined(store[last.key].metadata)

(***************************************************************************)
(* Properties of FileStorage under one caller: sidecars and enumeration.   *)
(***************************************************************************)
\* C29: when a put of key k returns, then, if it came with no expiration
\* and no metadata and sanitising left k as it is, no sidecar of k is left,
\* whatever an earlier put wrote, and hasMaybeExpired(k) and
\* getMaybeExpired(k) report an undefined expiration and undefined metadata;
\* otherwise the sidecar holds the expiration, the metadata and the original
\* key of this put.
C29_StaleSidecarRemoved ==
  [][(/\ procs[1].op = "put" /\ procs[1].pc = "value written"
      /\ procs'[1].pc = "done" /\ procs'[1].result = ReturnedVoid) =>
       LET put == procs[1]
           metaFilePath == put.path \o metaSuffix
       IN  IF ~IsDefined(put.expiration) /\ ~IsDefined(put.metadata) /\ ~put.sanitised
             THEN /\ metaFilePath \notin DOMAIN files'
                  /\ existsSync(files', dirs', put.path)
                  /\ hasAfterMeta(meta(files', dirs', put.path))
                       = ReturnedMeta(Undefined, Undefined)
                  /\ getMaybeExpired(files', dirs', sanitise, put.key)
                       = ReturnedStored(put.value, Undefined, Undefined)
             ELSE /\ metaFilePath \in DOMAIN files'
                  /\ files'[metaFilePath] =
                       [json |-> TRUE, bytes |-> <<>>, key |-> Some(put.key),
                        expiration |-> put.expiration,
                        metadata |-> jsonMetadata(put.metadata)]]_vars

\* C29's case: a put of "a" without expiration or metadata has returned, the
\* key having been stored with metadata when the put began, and no sidecar
\* of "a" is left.
C29_Reached ==
  /\ procs[1].op = "put" /\ procs[1].pc = "done" /\ procs[1].result = ReturnedVoid
  /\ procs[1].key = KeyA
  /\ ~IsDefined(procs[1].expiration) /\ ~IsDefined(procs[1].metadata)
  /\ ~procs[1].sanitised
  /\ procs[1].before.kind = "stored" /\ IsDefined(procs[1].before.metadata)
  /\ (procs[1].path \o metaSuffix) \notin DOMAIN files

\* C30, as stated: listAllMaybeExpired, called after any sequence of puts
\* and deletes that returned, yields each key that is stored (each key
\* getMaybeExpired finds, keys ending with the sidecar suffix included)
\* exactly once, under its original name and with the metadata of its latest
\* put, and yields nothing else.
C30_FullEnumeration ==
  [][(/\ last'.op = "listAllMaybeExpired"
      /\ files' = files /\ procs' = procs) =>
       /\ last'.result.codes = {}
       /\ \A e \in last'.result.keys : e.name \in SeqKeys
       /\ \A k \in SeqKeys :
            LET stored == getMaybeExpired(files, dirs, sanitise, k)
                yielded == {e \in last'.result.keys : e.name = k}
            IN  IF stored.kind = "stored"
                  THEN /\ Cardinality(yielded) = 1
                       /\ \A e \in yielded : e.metadata = stored.metadata
                  ELSE yielded = {}]_vars

\* The keys of the single caller that have a path under the root.
PathedKeys == {k \in SeqKeys : IsDefined(keyPath(sanitise, k).path)}

\* C31, as stated: a file step of a put or delete on key k leaves what
\* getMaybeExpired finds for every other key as it was; no two distinct keys
\* share a value file, and no key's value file is the sidecar file of
\* another key.
C31_KeyIsolation ==
  [][(/\ procs[1].op \in {"put", "delete"}
      /\ procs[1].pc # "done"
      /\ procs'[1].key = procs[1].key) =>
       /\ \A k \in SeqKeys \ {procs[1].key} :
            getMaybeExpired(files', dirs', sanitise, k)
              = getMaybeExpired(files, dirs, sanitise, k)
       /\ \A k1 \in PathedKeys : \A k2 \in PathedKeys \ {k1} :
            /\ keyPath(sanitise, k1).path # keyPath(sanitise, k2).path
            /\ The(keyPath(sanitise, k1).path)
                 # The(keyPath(sanitise, k2).path) \o metaSuffix]_vars

(***************************************************************************)
(* Properties of the alarm of FileStorage.                                 *)
(***************************************************************************)
\* C32, as stated: getAlarm after setAlarm(t) returns t, whatever puts and
\* deletes of the user key came in between; setAlarm and deleteAlarm leave
\* what getMaybeExpired finds for the user key as it was; and the alarm is
\* never among the keys listAllMaybeExpired yields.
C32_AlarmIsolation ==
  [][/\ (last'.op = "getAlarm" /\ IsDefined(last'.set))
          => last'.result = [kind |-> "number", number |-> Num(The(last'.set))]
     /\ (last'.op \in {"setAlarm", "deleteAlarm"} /\ procs' = procs)
          => getMaybeExpired(files', dirs', sanitise, KeyA)
               = getMaybeExpired(files, dirs, sanitise, KeyA)
     /\ (last'.op = "listAllMaybeExpired")
          => \A e \in last'.result.keys : e.name # AlarmKey]_vars

(***************************************************************************)
(* Properties of concurrent calls.                                         *)
(***************************************************************************)
\* C33, as stated: when a put and a delete of one key that ran concurrently,
\* and alone, have both returned, the key is either fully present (its
\* value file together with the sidecar of that put) or fully absent
\* (neither file).
C33_PutDeletePairing ==
  \A p \in Callers : \A q \in Callers \ {p} :
    (/\ procs[p].op = "put" /\ procs[q].op = "delete"
     /\ procs[p].key = procs[q].key
     /\ procs[p].calls = 1 /\ procs[q].calls = 1
     /\ procs[p].pc = "done" /\ procs[q].pc = "done"
     /\ procs[p].result = ReturnedVoid
     /\ procs[q].result.kind = "boolean") =>
      LET filePath == procs[p].path
          metaFilePath == procs[p].path \o metaSuffix
      IN  \/ filePath \notin DOMAIN files /\ metaFilePath \notin DOMAIN files
          \/ /\ filePath \in DOMAIN files /\ metaFilePath \in DOMAIN files
             /\ files[filePath].bytes = procs[p].value
             /\ files[metaFilePath].metadata = jsonMetadata(procs[p].metadata)

\* Whether caller p's put has returned, having been made with etagMatches
\* of the etag of the metadata it read.
matchedPut(p) ==
  /\ procs[p].pc = "returned"
  /\ IsDefined(procs[p].meta)
  /\ procs[p].options.onlyIf =
       OnlyIfOf(Some(Str(The(procs[p].meta).etag)), Undefined, Undefined, Undefined)

\* C34: two puts of one key, each with onlyIf {etagMatches: E}, that both
\* read the stored metadata of etag E before either wrote, both pass the
\* conditional, both write and both return new metadata: neither returns
\* null.
C34_ConditionalPutRace ==
  \A p \in Callers : \A q \in Callers \ {p} :
    (/\ matchedPut(p) /\ matchedPut(q)
     /\ procs[p].key = procs[q].key
     /\ procs[p].meta = procs[q].meta) =>
      \A c \in {p, q} :
        /\ procs[c].result.kind = "object"
        /\ procs[c].io = <<"meta", "put">>
        /\ procs[c].result.metadata.version # The(procs[c].meta).version

\* C34's case: both callers have put with etagMatches of the etag of the
\* first object, one five bytes and the other none; both read the first
\* object's metadata, both returned an object, and the second write is what
\* is stored.
C34_Reached ==
  /\ matchedPut(1) /\ matchedPut(2)
  /\ procs[1].meta = procs[2].meta
  /\ procs[1].value = FiveBytes /\ procs[2].value = NoBytes
  /\ procs[1].result.kind = "object" /\ procs[2].result.kind = "object"
  /\ procs[1].result.metadata.version # procs[2].result.metadata.version
  /\ store[KeyD].metadata \in {Some(procs[1].result.metadata),
                               Some(procs[2].result.metadata)}

(***************************************************************************)
(* NativeRuntime: the child processes of one runtime object.  A process is *)
(* named by the order of its spawn; the promise of its exit is named by    *)
(* the process and is resolved once the process is not alive any more.     *)
(***************************************************************************)
Configs == {1, 2}

NewRuntime ==
  [process |-> Undefined, processExitPromise |-> Undefined,
   spawned |-> 0, alive |-> {}, killed |-> {}, reads |-> <<>>]

IdleCall == [pc |-> "idle", awaited |-> Undefined, config |-> Undefined]

\* process.kill(): the signal reaches a process that is still alive
kill(rt, process) ==
  [rt EXCEPT !.killed = @ \cup (process \cap rt.alive)]

\* childProcess.spawn(...) followed by the two assignments of the fields
spawn(rt, config) ==
  LET runtimeProcess == rt.spawned + 1 IN
    [rt EXCEPT !.spawned = runtimeProcess,
               !.alive = @ \cup {runtimeProcess},
               !.process = Some(runtimeProcess),
               !.processExitPromise = Some(runtimeProcess),
               !.reads = Append(@, config)]

\* waitForExit: the promise is resolved by the "exit" event of its process
resolved(rt, promise) == \A process \in promise : process \notin rt.alive

NativeRuntime_dispose(rt) == kill(rt, rt.process)

awaiting == {p \in Callers : procs[p].pc = "awaiting"}

InitNative ==
  /\ store = EmptyStore
  /\ now = 0
  /\ versions = 0
  /\ last = NoCall
  /\ written = EmptyStore
  /\ pager = NoPager
  /\ loop = NoLoop
  /\ files = NoFiles
  /\ dirs = {}
  /\ sanitise = TRUE
  /\ runtime = NewRuntime
  /\ procs = [p \in Callers |-> IdleCall]

\* updateConfig up to its await: dispose() is called and its promise awaited
NativeUpdateConfigCall ==
  /\ \E p \in Callers, config \in Configs :
       /\ procs[p].pc = "idle"
       /\ runtime.spawned + Cardinality(awaiting) < MaxCalls
       /\ runtime' = NativeRuntime_dispose(runtime)
       /\ procs' = [procs EXCEPT ![p] = [pc |-> "awaiting",
                                         awaited |-> runtime.processExitPromise,
                                         config |-> Some(config)]]
  /\ UNCHANGED <<bucketVars, files, dirs, sanitise>>

\* updateConfig after its await: the new process is spawned and recorded
NativeUpdateConfigResume ==
  /\ \E p \in Callers :
       /\ procs[p].pc = "awaiting"
       /\ resolved(runtime, procs[p].awaited)
       /\ runtime' = spawn(runtime, The(procs[p].config))
       /\ procs' = [procs EXCEPT ![p] = IdleCall]
  /\ UNCHANGED <<bucketVars, files, dirs, sanitise>>

NativeDispose ==
  /\ runtime' = NativeRuntime_dispose(runtime)
  /\ runtime' # runtime
  /\ UNCHANGED <<bucketVars, files, dirs, procs, sanitise>>

\* a child process ends: after a signal, or by itself
NativeExit ==
  /\ \E process \in runtime.alive :
       runtime' = [runtime EXCEPT !.alive = @ \ {process}]
  /\ UNCHANGED <<bucketVars, files, dirs, procs, sanitise>>

NextNative ==
  NativeUpdateConfigCall \/ NativeUpdateConfigResume \/ NativeDispose \/ NativeExit

SpecNative == InitNative /\ [][NextNative]_vars

\* C35: at most one spawned child process of a NativeRuntime is alive at any
\* time, overlapping updateConfig calls included, and every child alive that
\* is not the one the runtime would kill next has been killed already.
C35_OneChildAlive ==
  /\ Cardinality(runtime.alive) <= 1
  /\ \A process \in runtime.alive :
       process \in runtime.process \/ process \in runtime.killed

(***************************************************************************)
(* DockerRuntime: one container process restarted in place.  The config is *)
(* a file the container mounts; `reads` holds, per process, the config the *)
(* runtime inside it was last started on.                                  *)
(***************************************************************************)
NewDocker ==
  [process |-> Undefined, processExitPromise |-> Undefined,
   spawned |-> 0, alive |-> {}, killed |-> {}, reads |-> <<>>,
   configFile |-> Undefined, calls |-> 0]

\* process.kill("SIGUSR1"): restart.sh starts the runtime again on the file
restart(rt, process) ==
  [rt EXCEPT !.reads = [q \in DOMAIN @ |->
                          IF q \in process \cap (rt.alive \ rt.killed)
                            THEN The(rt.configFile) ELSE @[q]]]

DockerRuntime_updateConfig(rt, configBuffer) ==
  LET withFile == [rt EXCEPT !.configFile = Some(configBuffer),
                             !.calls = @ + 1] IN
    IF IsDefined(rt.process)
      THEN restart(withFile, rt.process)
      ELSE spawn(withFile, configBuffer)

\* fs.unlinkSync, with ENOENT ignored
DockerRuntime_dispose(rt) ==
  [kill(rt, rt.process) EXCEPT !.configFile = Undefined, !.calls = @ + 1]

InitDocker ==
  /\ store = EmptyStore
  /\ now = 0
  /\ versions = 0
  /\ last = NoCall
  /\ written = EmptyStore
  /\ pager = NoPager
  /\ loop = NoLoop
  /\ files = NoFiles
  /\ dirs = {}
  /\ sanitise = TRUE
  /\ runtime = NewDocker
  /\ procs = [p \in Callers |-> IdleCall]

DockerUpdateConfig ==
  /\ \E configBuffer \in Configs :
       /\ runtime.calls <= 2 * MaxCalls
       /\ runtime' = DockerRuntime_updateConfig(runtime, configBuffer)
       /\ last' = [op |-> "updateConfig", config |-> configBuffer]
  /\ UNCHANGED <<store, now, versions, written, pager, loop, files, dirs, procs, sanitise>>

DockerDispose ==
  /\ runtime.calls <= 2 * MaxCalls
  /\ runtime' = DockerRuntime_dispose(runtime)
  /\ last' = [op |-> "dispose"]
  /\ UNCHANGED <<store, now, versions, written, pager, loop, files, dirs, procs, sanitise>>

\* the container ends: after a signal, or by itself
DockerExit ==
  /\ \E process \in runtime.alive :
       runtime' = [runtime EXCEPT !.alive = @ \ {process}]
  /\ UNCHANGED <<bucketVars, files, dirs, procs, sanitise>>

NextDocker == DockerUpdateConfig \/ DockerDispose \/ DockerExit

SpecDocker == InitDocker /\ [][NextDocker]_vars

\* C36: when a call updateConfig(c) of a DockerRuntime completes, whatever
\* calls and process exits came before, a process is running whose runtime
\* was started on c, and the config file exists and holds c.
C36_RunningAfterUpdateConfig ==
  [][(runtime'.calls = runtime.calls + 1 /\ last'.op = "updateConfig")
       => /\ runtime'.configFile = Some(last'.config)
          /\ \E process \in runtime'.alive \ runtime'.killed :
               runtime'.reads[process] = last'.config]_vars

(***************************************************************************)
(* Workers Sites: listing the files of a site directory as keys.  The      *)
(* magic prefix "$__MINIFLARE_SITES__$/" is one symbol of the alphabet; a  *)
(* glob matcher is the set of the names it matches.                        *)
(***************************************************************************)
SITES_NO_CACHE_PREFIX == <<"$__MINIFLARE_SITES__$/">>

SiteNames ==
  {<<"a">>, <<"b">>, <<"a", ".", "b">>, <<"d", "/", "a">>, <<"d", "/", "b">>}
SiteDirectories ==
  {[f \in {Root \o Slash \o n : n \in S} |-> ValueFile(<<>>)] : S \in SUBSET SiteNames}
SiteRegExps ==
  {[include |-> Undefined, exclude |-> Undefined],
   [include |-> Some(SiteNames \ {<<"b">>}), exclude |-> Undefined],
   [include |-> Undefined, exclude |-> Some({<<"a", ".", "b">>})]}
SitePrefixes ==
  {Undefined, Some(SITES_NO_CACHE_PREFIX),
   Some(SITES_NO_CACHE_PREFIX \o <<"d", "%", "2", "F">>),
   Some(<<"a">>)}
SiteLimits == {Undefined, Some(0), Some(1), Some(2)}

hexUpperDigit(n) ==
  <<"0", "1", "2", "3", "4", "5", "6", "7", "8", "9", "A", "B", "C", "D", "E", "F">>[n + 1]

RECURSIVE percentEncode(_)
\* "%XX" for each byte
percentEncode(bytes) ==
  IF bytes = <<>> THEN <<>>
  ELSE <<"%", hexUpperDigit(Head(bytes) \div 16), hexUpperDigit(Head(bytes) % 16)>>
         \o percentEncode(Tail(bytes))

\* the characters encodeURIComponent leaves alone, of those of the alphabet
unreserved(c) ==
  CodePoint(c) \in (48..57) \cup (65..90) \cup (97..122) \cup {46}

RECURSIVE encodeURIComponent(_)
encodeURIComponent(s) ==
  IF s = <<>> THEN <<>>
  ELSE (IF unreserved(Head(s)) THEN <<Head(s)>> ELSE percentEncode(Utf8Char(Head(s))))
         \o encodeURIComponent(Tail(s))

encodeSitesKey(key) == SITES_NO_CACHE_PREFIX \o encodeURIComponent(key)

testRegExps(matcher, key) == key \in matcher

testSiteRegExps(regExps, key) ==
  /\ ~IsDefined(regExps.include) \/ testRegExps(The(regExps.include), key)
  /\ ~IsDefined(regExps.exclude) \/ ~testRegExps(The(regExps.exclude), key)

\* the names of the files below the root, relative to it
listKeysInDirectory(fs, rootPath) ==
  {sliceFrom(filePath, Len(rootPath) + 1) : filePath \in walk(fs, rootPath)}

\* validateListOptions: the limit, when given, is within 1..MAX_LIST_KEYS
validListOptions(opts) ==
  IsDefined(opts.limit) => The(opts.limit) >= 1 /\ The(opts.limit) <= MAX_LIST_KEYS

\* keys.findIndex(({ name }) => name === startAfter)
findIndex(keys, startAfter) ==
  LET hits == {i \in DOMAIN keys : keys[i] = startAfter}
  IN  IF hits = {} THEN -1 ELSE (CHOOSE i \in hits : \A j \in hits : i <= j) - 1

startAtIndex(found, length) == IF found = -1 THEN length ELSE found

\* the index to start at, after that of the cursor's key
startIndexAfter(found, length) == (IF found = -1 THEN length ELSE found) + 1

\* The keys of the listing before the cursor and the limit apply.
sitesKeys(fs, siteRegExps, prefix) ==
  LET names == {encodeSitesKey(name) :
                  name \in {n \in listKeysInDirectory(fs, Root) :
                              testSiteRegExps(siteRegExps, n)}}
  IN  sortKeys({name \in names : ~IsDefined(prefix) \/ startsWith(name, The(prefix))})

sitesGatewayList(fs, siteRegExps, opts) ==
  IF ~validListOptions(opts) THEN [thrown |-> TRUE]
  ELSE
    LET limit == IF IsDefined(opts.limit) THEN The(opts.limit) ELSE MAX_LIST_KEYS
        keys == sitesKeys(fs, siteRegExps, opts.prefix)
        startAfter == IF IsDefined(opts.cursor) THEN base64Decode(The(opts.cursor))
                      ELSE <<>>
        startIndex == IF startAfter # <<>>
                        THEN startIndexAfter(findIndex(keys, startAfter), Len(keys))
                        ELSE 0
        endIndex == startIndex + limit
        nextCursor == IF endIndex < Len(keys)
                        THEN Some(base64Encode(keys[endIndex])) ELSE Undefined
    IN  [thrown |-> FALSE,
         keys |-> SubSeq(keys, startIndex + 1, Min(endIndex, Len(keys))),
         list_complete |-> ~IsDefined(nextCursor),
         cursor |-> nextCursor]

SiteListOptions(limit, prefix, cursor) ==
  [limit |-> limit, prefix |-> prefix, cursor |-> cursor]

SiteCall(siteRegExps, opts) ==
  [op |-> "sitesGatewayList", siteRegExps |-> siteRegExps, opts |-> opts,
   result |-> sitesGatewayList(files, siteRegExps, opts)]

InitSites ==
  /\ store = EmptyStore
  /\ now = 0
  /\ versions = 0
  /\ last = NoCall
  /\ written = EmptyStore
  /\ pager = NoPager
  /\ loop = NoLoop
  /\ files \in SiteDirectories
  /\ dirs = {}
  /\ sanitise = FALSE
  /\ runtime = NoRuntime
  /\ procs = [p \in Callers |-> IdleProc]

\* a first call without a cursor
SitesListFirst ==
  /\ ~pager.active
  /\ \E siteRegExps \in SiteRegExps, limit \in SiteLimits, prefix \in SitePrefixes :
       LET call == SiteCall(siteRegExps, SiteListOptions(limit, prefix, Undefined)) IN
         /\ last' = call
         /\ pager' = IF call.result.thrown THEN NoPager
                     ELSE [active |-> TRUE, siteRegExps |-> siteRegExps,
                           limit |-> limit, prefix |-> prefix,
                           results |-> <<call.result>>]
  /\ UNCHANGED <<store, now, versions, written, loop, fileVars>>

\* the caller passes the cursor of its last page on
SitesListNext ==
  /\ pager.active
  /\ ~pager.results[Len(pager.results)].list_complete
  /\ Len(pager.results) < MaxPages
  /\ LET call == SiteCall(pager.siteRegExps,
                          SiteListOptions(pager.limit, pager.prefix,
                                          pager.results[Len(pager.results)].cursor)) IN
       /\ last' = call
       /\ pager' = [pager EXCEPT !.results = Append(@, call.result)]
  /\ UNCHANGED <<store, now, versions, written, loop, fileVars>>

\* after the last page, a call with the cursor of any name
SitesListCursor ==
  /\ pager.active
  /\ pager.results[Len(pager.results)].list_complete
  /\ \E name \in SiteNames \cup {<<>>}, encoded \in BOOLEAN :
       last' = SiteCall(pager.siteRegExps,
                        SiteListOptions(pager.limit, pager.prefix,
                          Some(base64Encode(IF encoded /\ name # <<>>
                                              THEN encodeSitesKey(name) ELSE name))))
  /\ UNCHANGED <<store, now, versions, written, pager, loop, fileVars>>

NextSites == SitesListFirst \/ SitesListNext \/ SitesListCursor

SpecSites == InitSites /\ [][NextSites]_vars

\* The names of the keys the caller has received, page after page.
pagedNames == concat([i \in DOMAIN pager.results |-> pager.results[i].keys])

\* The keys of the directory that pass the filter and start with the prefix.
siteMatching(siteRegExps, prefix) ==
  {name \in {encodeSitesKey(n) : n \in {m \in SiteNames : Root \o Slash \o m \in DOMAIN files
                                                           /\ testSiteRegExps(siteRegExps, m)}} :
     ~IsDefined(prefix) \/ startsWith(name, The(prefix))}

\* C37: following the cursors of sitesGatewayList from a first call without
\* one, over an unchanged directory, every page holds at most `limit` keys,
\* every page but the last is incomplete and carries a cursor, the keys come
\* in strictly ascending order and are keys that pass the filter and start
\* with the prefix, and once list_complete is true they are all of those
\* keys; a cursor that names a key the listing does not hold gets an empty
\* page with list_complete true.
C37_SitesPagination ==
  /\ pager.active =>
       LET results == pager.results
           n == Len(results)
           matching == siteMatching(pager.siteRegExps, pager.prefix)
       IN  /\ \A i \in 1..n :
                 /\ Len(results[i].keys)
                      <= (IF IsDefined(pager.limit) THEN The(pager.limit) ELSE MAX_LIST_KEYS)
                 /\ i < n => ~results[i].list_complete /\ IsDefined(results[i].cursor)
                 /\ results[i].list_complete => ~IsDefined(results[i].cursor)
           /\ \A i \in 1..(Len(pagedNames) - 1) : lexLess(pagedNames[i], pagedNames[i + 1])
           /\ Range(pagedNames) \subseteq matching
           /\ results[n].list_complete => Range(pagedNames) = matching
  /\ (/\ last.op = "sitesGatewayList"
      /\ ~last.result.thrown
      /\ IsDefined(last.opts.cursor)
      /\ base64Decode(The(last.opts.cursor)) # <<>>
      /\ base64Decode(The(last.opts.cursor))
           \notin siteMatching(last.siteRegExps, last.opts.prefix))
       => last.result.keys = <<>> /\ last.result.list_complete

\* Three pages or more were followed to the end under a filter and a prefix,
\* and a call with the cursor of an absent key came back empty.
C37_Reached ==
  /\ pager.active
  /\ Len(pager.results) >= 3
  /\ pager.results[Len(pager.results)].list_complete
  /\ IsDefined(pager.prefix) /\ IsDefined(pager.siteRegExps.include)
  /\ Len(pagedNames) >= 3
  /\ last.op = "sitesGatewayList"
  /\ IsDefined(last.opts.cursor)
  /\ base64Decode(The(last.opts.cursor)) = encodeSitesKey(<<"b">>)
  /\ last.result.keys = <<>> /\ last.result.list_complete

====
